---- MODULE Spec2Model ----
(***************************************************************************)
(* Model of loopholelabs/cmdutils: the command lifecycle of                *)
(* pkg/command (Command.Execute, Command.runCmd, the cobra.OnInitialize    *)
(* hook, Command.initConfig, Command.presetRequiredFlags) together with    *)
(* the process-wide state it shares between Command instances (cfgFile,    *)
(* logFile, logOutput, logClosersLock, logClosers and cobra's list of      *)
(* initializers).                                                          *)
(*                                                                         *)
(* The revision modelled is the one of src/unnamed/part_005, lines         *)
(* 233-576 (the Command with format, debug, logLevel, stdout and stderr    *)
(* fields), which is the revision the tests of part_004 and the harness of *)
(* part_006 exercise.                                                      *)
(***************************************************************************)
EXTENDS Integers, Sequences, FiniteSets, TLC

\* ---------------------------------------------------------------- bounds
\* Number of Command instances constructed in the process.
MaxInst == 2

Instances == 1..MaxInst

\* ------------------------------------------------------ program constants
ActionRequestedExitCode == 1
FatalErrExitCode == 2

\* printer.Format
Human == "human"
JSON == "json"
Formats == {Human, JSON}

\* command.Type
Interactive == "Interactive"
Noninteractive == "Noninteractive"
Types == {Interactive, Noninteractive}

\* types.InfoLevel, the default of --log-level
InfoLevel == "info"

\* ------------------------------------------------------------ error values
\* A Go error is modelled as its Unwrap chain, outermost first; the empty
\* chain is nil.  A link is either a *cmdutils.Error (with its ExitCode) or
\* any other error type; msg is the text the link's Error() returns.
Nil == << >>

PlainLink(m) == [type |-> "plain", msg |-> m, ExitCode |-> 0]

\* &cmdutils.Error{Msg: m, ExitCode: c}
CmdLink(m, c) == [type |-> "cmdutils.Error", msg |-> m, ExitCode |-> c]

\* errors.New(m)
NewError(m) == << PlainLink(m) >>

\* fmt.Errorf(prefix + "%w", e)
Wrap(prefix, e) == << PlainLink(prefix \o e[1].msg) >> \o e

\* err.Error()
ErrorString(e) == e[1].msg

\* Exit codes a subcommand attaches to a cmdutils.Error in the model.
ExitCodes == {0, ActionRequestedExitCode, FatalErrExitCode}

CmdErrors == { << CmdLink("denied", c) >> : c \in ExitCodes }

\* Errors a subcommand body, an argument validator or a Config method returns.
Errors ==
    {NewError("boom")} \cup CmdErrors \cup { Wrap("run: ", e) : e \in CmdErrors }

\* Errors the DefaultConfigDir and DefaultLogDir methods of a Config return.
DirErrors == { NewError("no home"), << CmdLink("no home", ActionRequestedExitCode) >> }

\* A type assertion on the error itself, which does not unwrap.
ErrorsAsTypeAssert(e) == IF e[1].type = "cmdutils.Error" THEN 1 ELSE 0

\* errors.As(err, &cmdErr): the index of the first *cmdutils.Error of the
\* chain, 0 when there is none.
RECURSIVE ErrorsAsFrom(_, _)
ErrorsAsFrom(e, k) ==
    IF k > Len(e) THEN 0
    ELSE IF e[k].type = "cmdutils.Error" THEN k
    ELSE ErrorsAsFrom(e, k + 1)

ErrorsAs(e) == ErrorsAsFrom(e, 1)

\* The tail of Execute: the exit code returned for a non-nil error.
ExitCodeOf(e) ==
    IF ErrorsAs(e) # 0 THEN e[ErrorsAs(e)].ExitCode ELSE FatalErrExitCode

\* ------------------------------------------------------------ text output
\* fmt.Fprintf(c.stderr, `{"error": "%s"}`, err) and
\* fmt.Fprintf(c.stderr, "Error: %s\n", err)
FormatError(f, e) ==
    IF f = JSON THEN "{\"error\": \"" \o ErrorString(e) \o "\"}"
    ELSE "Error: " \o ErrorString(e) \o "\n"

DevWarning == "!! WARNING: You are using a self-compiled binary"

\* ------------------------------------------------------------- file paths
\* The value of an absent flag argument.
Unset == "<unset>"

\* path.Join(logDir, c.config.DefaultLogFile())
DefaultLogPath == "/state/app.log"

\* The file found by viper's search of the default configuration directory.
DefaultConfigPath == "/etc/app/config.yaml"

\* Values given to --log and to --config on the command line.
LogArgs == {Unset, " ", "/tmp/run.log"}
ConfigArgs == {Unset, "/tmp/cfg.yaml"}

\* A path is used as it was given.
TrimSpaceNone(s) == s

\* strings.TrimSpace over the paths of the model.
TrimSpace(s) == IF s \in {"", " ", "\t"} THEN "" ELSE s

\* A --log-level argument: whether the flag is on the command line, and its
\* text as a sequence of characters.
LevelArg(s) == [given |-> TRUE, text |-> s]
NoLevelArg == [given |-> FALSE, text |-> << >>]

\* Values given to --log-level on the command line.
LevelArgs == {NoLevelArg, LevelArg(<< >>)}

\* The names of the levels of types.Level, lowest verbosity first.
LevelTable ==
    << "f", "a", "t", "a", "l" >> :> "fatal" @@
    << "e", "r", "r", "o", "r" >> :> "error" @@
    << "w", "a", "r", "n" >> :> "warn" @@
    << "i", "n", "f", "o" >> :> "info" @@
    << "d", "e", "b", "u", "g" >> :> "debug" @@
    << "t", "r", "a", "c", "e" >> :> "trace"

\* strings.ToUpper and strings.ToLower over the letters of the model.
UpperOf ==
    "a" :> "A" @@ "b" :> "B" @@ "c" :> "C" @@ "d" :> "D" @@ "e" :> "E" @@
    "f" :> "F" @@ "g" :> "G" @@ "i" :> "I" @@ "j" :> "J" @@ "l" :> "L" @@
    "n" :> "N" @@ "o" :> "O" @@ "r" :> "R" @@ "s" :> "S" @@ "t" :> "T" @@
    "u" :> "U" @@ "w" :> "W" @@ "x" :> "X"

ToUpperChar(ch) == IF ch \in DOMAIN UpperOf THEN UpperOf[ch] ELSE ch

ToLowerChar(ch) ==
    IF \E l \in DOMAIN UpperOf : UpperOf[l] = ch
    THEN CHOOSE l \in DOMAIN UpperOf : UpperOf[l] = ch
    ELSE ch

ToLower(s) == [k \in 1..Len(s) |-> ToLowerChar(s[k])]
ToUpper(s) == [k \in 1..Len(s) |-> ToUpperChar(s[k])]

\* Every casing of a text.
RECURSIVE Casings(_)
Casings(s) ==
    IF s = << >> THEN { << >> }
    ELSE { << c >> \o r : c \in {Head(s), ToUpperChar(Head(s))}, r \in Casings(Tail(s)) }

\* A parse that compares the text as it is.
ParseLevelExact(s) ==
    IF s \in DOMAIN LevelTable THEN LevelTable[s] ELSE "invalid"

\* types.Level's Set, the pflag.Value of --log-level (line 474), as
\* TestLogLevel exercises it: the text is compared with the names of the
\* levels without regard to case; "invalid" stands for a returned error.
ParseLevel(s) ==
    IF ToLower(s) \in DOMAIN LevelTable THEN LevelTable[ToLower(s)] ELSE "invalid"

\* Texts given to --log-level when the logging of a run is followed: every
\* casing of warn and info, three casings of the other names, and texts that
\* name no level.
LevelTexts ==
    Casings(<< "w", "a", "r", "n" >>) \cup Casings(<< "i", "n", "f", "o" >>)
       \cup UNION { {s, ToUpper(s), << ToUpperChar(Head(s)) >> \o Tail(s)} :
                       s \in DOMAIN LevelTable }
       \cup { << >>, << "w", "a", "r" >>, << "w", "a", "r", "n", "s" >>,
              << "n", "o", "t", "-", "v", "a", "l", "i", "d" >> }

AllLevelArgs == {NoLevelArg} \cup { LevelArg(s) : s \in LevelTexts }

\* -------------------------------------------------------------- package log
\* log.Format, an int: FormatText and FormatJSON, and a value that is
\* neither.
FormatText == 0
FormatJSON == 1
LogFormats == {FormatText, FormatJSON, 2}

\* A nil error of Format.Set.
NoError == [msg |-> "", arg |-> << >>]

\* Format.String, lines 91-100.
FormatString(f) ==
    IF f = FormatText THEN << "t", "e", "x", "t" >>
    ELSE IF f = FormatJSON THEN << "j", "s", "o", "n" >>
    ELSE << "<", "u", "n", "d", "e", "f", "i", "n", "e", "d", ">" >>

\* A Set that compares the text as it is.
FormatSetExact(f, s) ==
    IF s = << "t", "e", "x", "t" >> THEN [f |-> FormatText, err |-> NoError]
    ELSE IF s = << "j", "s", "o", "n" >> THEN [f |-> FormatJSON, err |-> NoError]
    ELSE [f |-> f, err |-> [msg |-> "unknown log format", arg |-> s]]

\* Format.Set, lines 112-122: the value of the receiver after the call and
\* the error returned, fmt.Errorf("unknown log format %q", s) kept as its
\* fixed text and its argument.
FormatSet(f, s) ==
    IF ToLower(s) = << "t", "e", "x", "t" >> THEN [f |-> FormatText, err |-> NoError]
    ELSE IF ToLower(s) = << "j", "s", "o", "n" >> THEN [f |-> FormatJSON, err |-> NoError]
    ELSE [f |-> f, err |-> [msg |-> "unknown log format", arg |-> s]]

\* Texts given to Format.Set: every casing of text and of json, and texts
\* that name no format.
FormatTexts ==
    Casings(<< "t", "e", "x", "t" >>) \cup Casings(<< "j", "s", "o", "n" >>)
       \cup { << >>, << "t", "e", "x" >>, << "t", "e", "x", "t", "s" >>,
              << " ", "j", "s", "o", "n" >>, << "j", "s", "o", "n", " " >>,
              << "n", "o", "t", " ", "v", "a", "l", "i", "d" >>,
              << "<", "u", "n", "d", "e", "f", "i", "n", "e", "d", ">" >> }

\* log.Level: the slog levels a logger is made with.
SlogLevels == {"DEBUG", "INFO", "WARN", "ERROR"}

\* The logFile arguments of New.
LogFileArgs == {"stdout", "", "stderr", "STDOUT", "Stderr", " ", "/tmp/app.log"}

\* No logger has been made.
NoSlogLogger ==
    [logFile |-> "", level |-> "INFO", format |-> FormatText,
     writer |-> [kind |-> "none", name |-> ""], handler |-> "none"]

\* A selection that knows the empty name only for standard error.
NewWriterNoStderrName(file) ==
    IF file = "stdout" THEN [kind |-> "os.Stdout", name |-> ""]
    ELSE IF file = "" THEN [kind |-> "os.Stderr", name |-> ""]
    ELSE [kind |-> "lumberjack", name |-> file]

\* The writer New selects, lines 31-43.
NewWriter(file) ==
    IF file = "stdout" THEN [kind |-> "os.Stdout", name |-> ""]
    ELSE IF file \in {"", "stderr"} THEN [kind |-> "os.Stderr", name |-> ""]
    ELSE [kind |-> "lumberjack", name |-> file]

\* The handler New makes, lines 45-52; nil for a format that is neither.
NewHandler(f) ==
    IF f = FormatText THEN "TextHandler"
    ELSE IF f = FormatJSON THEN "JSONHandler"
    ELSE "nil"

\* log.New, lines 28-55, with the arguments it was given.
New(file, level, f) ==
    [logFile |-> file, level |-> level, format |-> f,
     writer |-> NewWriter(file), handler |-> NewHandler(f)]

\* ------------------------------------------------------------------ state
VARIABLES
    proc,            \* "running", or "exited" once os.Exit was called
    exitStatus,      \* the status given to os.Exit, -1 while running
    cfgFile,         \* package variable cfgFile (--config)
    logFile,         \* package variable logFile (--log)
    logOutput,       \* package variable logOutput
    logClosersLock,  \* holder of logClosersLock, 0 when unlocked
    logClosers,      \* package variable logClosers: the file handle each closer closes
    initializers,    \* cobra's process-wide list of OnInitialize hooks: the instance each closes over
    closeCalls,      \* per opened file handle, the number of Close calls made on it
    handlePath,      \* per opened file handle, the path it was opened at
    stderr,          \* writes to standard error since the latest Execute began: [call, text]
    pc,              \* per instance: position of its Execute call
    commandType,     \* per instance: the commandType argument of Execute
    argFormat,       \* per instance: the --format argument of its command line, until it is parsed
    format,          \* per instance: c.format
    debug,           \* per instance: c.debug
    logLevel,        \* per instance: c.logLevel
    helper,          \* per instance: the cmdutils.Helper given to the subcommands
    err,             \* per instance: the error runCmd returned to its call
    rc,              \* per instance: the value Execute returned, -1 before
    hookIdx,         \* per instance: the initializer its call runs next
    initRuns,        \* per instance: initConfig runs made during its call
    routeRuns,       \* per instance: log routings made during its call
    invoked,         \* per instance: the handles whose closer its call invoked
    bodyRan,         \* per instance: a subcommand body ran in its call
    failure,         \* per instance: the step of its call that failed, "none" if none did
    osArgs,          \* per field: the value its flag is given on the command line, Unset if none
    environ,         \* per field: the value of its environment variable, Unset if not in the environment
    configFile,      \* per field: the value the configuration file holds for its key, Unset if none
    required,        \* per field: the flag is marked required
    flags,           \* per field: the pflag.Flag of the executed command
    viperConfig,     \* per field: the value viper read from the configuration file
    rpc,             \* position of the run whose field resolution is followed
    validateErr,     \* the flags cobra's required-flag validation reported as not set
    resolved,        \* per field: the value the subcommand body read from the flag
    cmdline,         \* the flags on the command line of the run whose logging is followed
    configValid,     \* the Validate method of the configuration of that run returns nil
    logLines,        \* the records that reached the logger's output in that run: [sev, enc, out]
    version,         \* per version field: the string the binary was built with
    devEnv,          \* the value of <CLI>_DISABLE_DEV_WARNING, Unset if not in the environment
    fileLogOutput,   \* per goroutine: the handle its running hook opened, 0 if none
    appendRead,      \* per goroutine: the value of logClosers its append read
    registered,      \* per goroutine: the handles whose closer it has appended
    logFormat,       \* a log.Format variable, the receiver of Set
    setArg,          \* the text of the latest Set on logFormat
    setRecv,         \* the value of logFormat before the latest Set
    setErr,          \* the error of the latest Set, NoError if none
    slogLogger,      \* the logger returned by the latest log.New, with its arguments
    executed,        \* the command of the tree that the command line names, "" when no tree is followed
    closeFailed,     \* per instance, the handles whose closer returned an error in the drain of its latest call
    configRun,       \* the run of initConfig that is followed: --config, the file, the fault, the commands below the root, the directory
    configEnd,       \* what that run of initConfig ended with: the error, the path the configuration records, the directory
    hookList,        \* per instance, the initializers its call ranges over, as cobra read them when the call reached them
    validated,       \* the call of a RequiredArgs validator that is followed: the declared names and the arguments supplied
    validateArgsErr  \* the error that call returned, Nil for none, and whether the call was made

vars == << proc, exitStatus, cfgFile, logFile, logOutput, logClosersLock,
           logClosers, initializers, closeCalls, handlePath, stderr, pc,
           commandType, argFormat, format, debug, logLevel, helper, err, rc,
           hookIdx, initRuns, routeRuns, invoked, bodyRan, failure, osArgs,
           environ, configFile, required, flags, viperConfig, rpc, validateErr,
           resolved, cmdline, configValid, logLines, version, devEnv,
           fileLogOutput, appendRead, registered,
           logFormat, setArg, setRecv, setErr, slogLogger,
           executed,
           closeFailed,
           configRun, configEnd,
           hookList,
           validated, validateArgsErr >>

\* The variables of the process and of its Execute calls, those of the
\* resolution of the fields, those of the run whose logging is followed,
\* those of the build and environment whose development warning is followed,
\* and those of the goroutines that call Execute concurrently.
processVars == << proc, exitStatus, cfgFile, logFile, logOutput, logClosersLock,
                  logClosers, initializers, closeCalls, handlePath, stderr, pc,
                  commandType, argFormat, format, debug, logLevel, helper, err,
                  rc, hookIdx, initRuns, routeRuns, invoked, bodyRan, failure >>

fieldVars == << osArgs, environ, configFile, required, flags, viperConfig, rpc,
                validateErr, resolved >>

runVars == << cmdline, configValid, logLines >>

buildVars == << version, devEnv >>

concVars == << fileLogOutput, appendRead, registered >>

logVars == << logFormat, setArg, setRecv, setErr, slogLogger >>

treeVars == << executed >>

drainVars == << closeFailed >>

configVars == << configRun, configEnd >>

raceVars == << hookList >>

argVars == << validated, validateArgsErr >>

\* io.Writer values of logOutput; h is the file handle, 0 for none.
NoOutput == [kind |-> "nil", h |-> 0]
StderrOutput == [kind |-> "stderr", h |-> 0]
FileOutput(h) == [kind |-> "file", h |-> h]
MultiOutput(h) == [kind |-> "file+stderr", h |-> h]

\* logging.Logger values; NoLogger is the nil interface.
NoLogger == [enc |-> "nil", out |-> NoOutput, level |-> "nil"]

\* &cmdutils.Helper[T]{Config: c.config}
NewHelper == [Config |-> TRUE, Printer |-> FALSE, debug |-> FALSE, Logger |-> NoLogger]
ZeroHelper == [Config |-> FALSE, Printer |-> FALSE, debug |-> FALSE, Logger |-> NoLogger]

\* The state after construction of the instances: New, lines 301-315, and the
\* zero values of the package variables, lines 291-298.
InitProcess ==
    /\ proc = "running"
    /\ exitStatus = -1
    /\ cfgFile = ""
    /\ logFile = ""
    /\ logOutput = NoOutput
    /\ logClosersLock = 0
    /\ logClosers = << >>
    /\ initializers = << >>
    /\ closeCalls = << >>
    /\ handlePath = << >>
    /\ stderr = << >>
    /\ pc = [i \in Instances |-> "NotStarted"]
    /\ commandType = [i \in Instances |-> Interactive]
    /\ argFormat = [i \in Instances |-> Unset]
    /\ format = [i \in Instances |-> Human]
    /\ debug = [i \in Instances |-> FALSE]
    /\ logLevel = [i \in Instances |-> "fatal"]
    /\ helper = [i \in Instances |-> ZeroHelper]
    /\ err = [i \in Instances |-> Nil]
    /\ rc = [i \in Instances |-> -1]
    /\ hookIdx = [i \in Instances |-> 0]
    /\ initRuns = [i \in Instances |-> 0]
    /\ routeRuns = [i \in Instances |-> 0]
    /\ invoked = [i \in Instances |-> {}]
    /\ bodyRan = [i \in Instances |-> FALSE]
    /\ failure = [i \in Instances |-> "none"]

\* The configuration fields bound to flags of the executed subcommand, by flag
\* name, and the values their sources may hold.  Each source has a value of
\* its own, so that the resolved value tells the source it came from.
Fields == {"region", "token"}
FlagValues == {Unset, "", "a"}
EnvValues == {Unset, "", "e"}
FileValues == {Unset, "", "f"}
DefValues == {"", "d"}

\* A pflag.Flag as flags.String(name, def, usage) declares it.
NewFlag(def) == [Value |-> def, DefValue |-> def, Changed |-> FALSE]

\* No field resolution is followed.
InitFieldsIdle ==
    /\ osArgs = [f \in Fields |-> Unset]
    /\ environ = [f \in Fields |-> Unset]
    /\ configFile = [f \in Fields |-> Unset]
    /\ required = [f \in Fields |-> FALSE]
    /\ flags = [f \in Fields |-> NewFlag("")]
    /\ viperConfig = [f \in Fields |-> Unset]
    /\ rpc = "idle"
    /\ validateErr = {}
    /\ resolved = [f \in Fields |-> Unset]

\* The command line `app run`: no flag given.
NoCmdline == [log |-> Unset, config |-> Unset, debug |-> FALSE, level |-> NoLevelArg]

\* The logging of no run is followed.
InitRunIdle ==
    /\ cmdline = NoCmdline
    /\ configValid = TRUE
    /\ logLines = {}

\* The fields of version.Version.
VersionFields == {"gitCommit", "goVersion", "buildDate", "version", "platform"}

\* The development warning of no build is followed.
InitBuildIdle ==
    /\ version = [f \in VersionFields |-> "v"]
    /\ devEnv = Unset

\* No goroutine is inside an append to logClosers.
InitConc ==
    /\ fileLogOutput = [i \in Instances |-> 0]
    /\ appendRead = [i \in Instances |-> << >>]
    /\ registered = [i \in Instances |-> {}]

\* No value of package log is followed.
InitLogIdle ==
    /\ logFormat = FormatText
    /\ setArg = << >>
    /\ setRecv = FormatText
    /\ setErr = NoError
    /\ slogLogger = NoSlogLogger

\* No command tree is followed.
InitTreeIdle ==
    /\ executed = ""

\* No closer has returned an error.
InitDrainIdle ==
    /\ closeFailed = [i \in Instances |-> {}]

\* No run of initConfig is followed on its own.
InitConfigIdle ==
    /\ configRun = [cfgFile |-> "", fileState |-> "missing", fault |-> "none", commands |-> 0, dir |-> "exists"]
    /\ configEnd = [outcome |-> "idle", err |-> Nil, configFile |-> "", dir |-> "exists"]

\* No call is ranging over the initializers concurrently with another.
InitRaceIdle ==
    /\ hookList = [i \in Instances |-> << >>]

\* No call of a RequiredArgs validator is followed.
InitArgsIdle ==
    /\ validated = [reqArgs |-> << >>, args |-> << >>]
    /\ validateArgsErr = [called |-> FALSE, err |-> Nil]

Init ==
    /\ InitProcess
    /\ InitFieldsIdle
    /\ InitRunIdle
    /\ InitBuildIdle
    /\ InitConc
    /\ InitLogIdle
    /\ InitTreeIdle
    /\ InitDrainIdle
    /\ InitConfigIdle
    /\ InitRaceIdle
    /\ InitArgsIdle

\* A call of Execute is in progress on instance i.
Active(i) == pc[i] \notin {"NotStarted", "Terminated"}

Write(i, text) == Append(stderr, [call |-> i, text |-> text])

\* os.Exit(code)
Exit(code) ==
    /\ proc' = "exited"
    /\ exitStatus' = code

\* ---------------------------------------------------------------- Execute
\* Execute, lines 321-331: the development warning, then the call of runCmd.
\* devEnvSet: os.LookupEnv finds <CLI>_DISABLE_DEV_WARNING; emptyFields: the
\* version fields that are empty.
DevWarningShown(devEnvSet, emptyFields) ==
    ~devEnvSet /\ emptyFields # {}

ExecuteFrom(i, devEnvSet, emptyFields) ==
    /\ proc = "running"
    /\ pc[i] = "NotStarted"
    /\ \A j \in Instances : ~Active(j)
    \* Instances are numbered in the order in which they are executed.
    /\ \A j \in Instances : j < i => pc[j] = "Terminated"
    /\ \E t \in Types, f \in Formats \cup {Unset} :
          /\ commandType' = [j \in Instances |-> IF j = i THEN t ELSE Interactive]
          /\ argFormat' = [j \in Instances |-> IF j = i THEN f ELSE Unset]
          /\ stderr' = IF DevWarningShown(devEnvSet, emptyFields)
                       THEN << [call |-> i, text |-> DevWarning] >> ELSE << >>
    /\ pc' = [pc EXCEPT ![i] = "runCmd"]
    \* What was observed of the calls that returned earlier is dropped.
    /\ rc' = [j \in Instances |-> -1]
    /\ err' = [j \in Instances |-> Nil]
    /\ initRuns' = [j \in Instances |-> 0]
    /\ routeRuns' = [j \in Instances |-> 0]
    /\ invoked' = [j \in Instances |-> {}]
    /\ closeFailed' = [j \in Instances |-> {}]
    /\ bodyRan' = [j \in Instances |-> FALSE]
    /\ failure' = [j \in Instances |-> "none"]
    /\ UNCHANGED << proc, exitStatus, cfgFile, logFile, logOutput,
                    logClosersLock, logClosers, initializers, closeCalls,
                    handlePath, format, debug, logLevel, helper, hookIdx,
                    fieldVars, runVars, buildVars, concVars, logVars,
                    treeVars, configVars, raceVars, argVars >>

Execute(i) ==
    \E devEnvSet \in BOOLEAN, emptyFields \in {{}, {"gitCommit"}, VersionFields} :
        ExecuteFrom(i, devEnvSet, emptyFields)

\* A default log path computed whatever the type of the command.
logPathAnyType(t) == DefaultLogPath

\* logPath, lines 375-378: the default of the --log flag.
logPath(t) == IF t = Interactive THEN DefaultLogPath ELSE ""

\* runCmd, lines 361-491: everything before c.command.ExecuteContext.
\* DefaultConfigDir or DefaultLogDir may fail with any error; otherwise the
\* flags are registered (which sets the variables they are bound to to
\* their defaults) and the initialization hook is appended to cobra's
\* process-wide initializers.
RunCmd(i) ==
    /\ proc = "running"
    /\ pc[i] = "runCmd"
    /\ \/ \E e \in DirErrors, which \in {"DefaultConfigDir", "DefaultLogDir"} :
             /\ err' = [err EXCEPT ![i] = e]
             /\ failure' = [failure EXCEPT ![i] = which]
             /\ pc' = [pc EXCEPT ![i] = "Classifying"]
             /\ UNCHANGED << cfgFile, logFile, initializers, format, debug,
                             logLevel, helper >>
       \/ /\ cfgFile' = ""
          /\ logFile' = logPath(commandType[i])
          /\ helper' = [helper EXCEPT ![i] = NewHelper]
          /\ initializers' = Append(initializers, i)
          /\ format' = [format EXCEPT ![i] = Human]
          /\ debug' = [debug EXCEPT ![i] = FALSE]
          /\ logLevel' = [logLevel EXCEPT ![i] = InfoLevel]
          /\ pc' = [pc EXCEPT ![i] = "parse"]
          /\ UNCHANGED << err, failure >>
    /\ UNCHANGED << proc, exitStatus, logOutput, logClosersLock, logClosers,
                    closeCalls, handlePath, stderr, commandType, argFormat,
                    rc, hookIdx, initRuns, routeRuns, invoked, bodyRan,
                    fieldVars, runVars, buildVars, concVars, logVars,
                    treeVars, drainVars, configVars, raceVars, argVars >>

\* pflag's error for a --log-level argument its Value rejects; the text of
\* the argument is left out of the message.
InvalidLevelError == NewError("invalid argument for \"--log-level\" flag")

FlagErrors == { NewError("unknown flag: --bogus"), InvalidLevelError }

\* The error of the parse of a command line with one offending flag, where a is
\* the --log-level argument it holds: the level when its text names none, a
\* flag that is not defined otherwise.
FlagErrorOf(a) ==
    IF a.given /\ ParseLevel(a.text) = "invalid" THEN InvalidLevelError
    ELSE NewError("unknown flag: --bogus")

\* The flags of the command line are set into the variables they are bound
\* to: --format as given to Execute's process, and d, l, c, lv the values of
\* --debug, --log, --config and --log-level.
ApplyFlags(i, d, l, c, lv) ==
    /\ format' = [format EXCEPT ![i] = IF argFormat[i] = Unset THEN @ ELSE argFormat[i]]
    /\ debug' = [debug EXCEPT ![i] = d]
    /\ logFile' = IF l = Unset THEN logFile ELSE l
    /\ cfgFile' = IF c = Unset THEN cfgFile ELSE c
    /\ logLevel' = [logLevel EXCEPT ![i] = IF lv = Unset THEN @ ELSE lv]
    /\ argFormat' = [argFormat EXCEPT ![i] = Unset]

\* c.command.ExecuteContext, line 493, up to cobra's call of the
\* initializers: the command line is parsed into the variables the flags are
\* bound to.  A flag error or an unknown command is returned before any
\* initializer runs; --help, --version and a command that is not runnable
\* end the call with a nil error, also before any initializer runs.
\* levelArgs: the --log-level arguments the command line may hold; follow:
\* the command line is kept in cmdline.
ParseArgsFrom(i, levelArgs, follow) ==
    /\ proc = "running"
    /\ pc[i] = "parse"
    /\ \/ \* a flag error, of the one offending flag of the command line: the
          \* flags before it are applied
          \E applied \in BOOLEAN, a \in levelArgs :
             /\ err' = [err EXCEPT ![i] = FlagErrorOf(a)]
             /\ cmdline' = IF follow THEN [NoCmdline EXCEPT !.level = a] ELSE cmdline
             /\ failure' = [failure EXCEPT ![i] = "flags"]
             /\ pc' = [pc EXCEPT ![i] = "Classifying"]
             /\ format' = [format EXCEPT ![i] =
                    IF applied /\ argFormat[i] # Unset THEN argFormat[i] ELSE @]
             /\ UNCHANGED << hookIdx, debug, logFile, cfgFile, logLevel, argFormat >>
       \/ /\ \E d \in BOOLEAN, l \in LogArgs, c \in ConfigArgs, a \in levelArgs :
                /\ a.given => ParseLevel(a.text) # "invalid"
                /\ ApplyFlags(i, d, l, c, IF a.given THEN ParseLevel(a.text) ELSE Unset)
                /\ cmdline' = IF follow
                              THEN [log |-> l, config |-> c, debug |-> d, level |-> a]
                              ELSE cmdline
          /\ \/ \* --help, --version, or a command that is not runnable
                /\ err' = [err EXCEPT ![i] = Nil]
                /\ pc' = [pc EXCEPT ![i] = "Classifying"]
                /\ UNCHANGED hookIdx
             \/ /\ hookIdx' = [hookIdx EXCEPT ![i] = 1]
                /\ pc' = [pc EXCEPT ![i] = "hookInit"]
                /\ UNCHANGED err
          /\ UNCHANGED failure
    /\ UNCHANGED << proc, exitStatus, logOutput, logClosersLock, logClosers,
                    initializers, closeCalls, handlePath, stderr,
                    commandType, helper, rc, initRuns, routeRuns, invoked,
                    bodyRan, configValid, logLines, fieldVars, buildVars,
                    concVars, logVars, treeVars, drainVars, configVars,
                    raceVars, argVars >>

ParseArgs(i) == ParseArgsFrom(i, LevelArgs, FALSE)

\* ----------------------------------------------------- the initialization hook
\* The instance whose hook the call of instance i runs next: cobra runs every
\* hook registered in the process, in registration order.
HookOf(i) == initializers[hookIdx[i]]

\* viper.ReadInConfig as initConfig uses it, lines 498-528.  explicit: --config
\* was given; fileState: what is at the path.  The result is the
\* configuration file used ("" for none) or "error".  With an explicit path a
\* missing file is an open error, not a viper.ConfigFileNotFoundError; the
\* search of the default directory answers ConfigFileNotFoundError, which
\* initConfig ignores.
FileStates == {"ok", "missing", "malformed"}

ReadInConfig(explicitPath, fileState) ==
    IF fileState = "malformed" THEN "error"
    ELSE IF explicitPath # "" THEN
        (IF fileState = "missing" THEN "error" ELSE explicitPath)
    ELSE
        (IF fileState = "missing" THEN "" ELSE DefaultConfigPath)

\* Faults of the environment during initConfig.
InitFaults == {"none", "dirLookup", "unmarshal", "presetFatal", "mkdirConfig"}

\* The error initConfig returns (Nil for none), lines 497-546.
InitConfigError(explicitPath, fileState, fault) ==
    IF explicitPath = "" /\ fault = "dirLookup"
    THEN Wrap("failed to read default configuration directory: ", NewError("no home"))
    ELSE IF ReadInConfig(explicitPath, fileState) = "error"
    THEN Wrap("failed to read configuration: ",
              NewError(IF fileState = "missing" THEN "open: no such file or directory"
                       ELSE "bad file"))
    ELSE IF fault = "unmarshal"
    THEN Wrap("failed to unmarshal configuration: ", NewError("bad type"))
    ELSE IF fault = "mkdirConfig" /\ ReadInConfig(explicitPath, fileState) # ""
    THEN Wrap("failed to create configuration directory: ", NewError("denied"))
    ELSE Nil

\* The step of initConfig that failed.
InitConfigFailure(explicitPath, fileState, fault) ==
    IF explicitPath = "" /\ fault = "dirLookup" THEN "initConfig.DefaultConfigDir"
    ELSE IF ReadInConfig(explicitPath, fileState) = "error"
    THEN (IF fileState = "missing" THEN "ReadInConfig(missing)" ELSE "ReadInConfig")
    ELSE IF fault = "unmarshal" THEN "Unmarshal"
    ELSE IF fault = "presetFatal" THEN "presetRequiredFlags"
    ELSE IF fault = "mkdirConfig" /\ ReadInConfig(explicitPath, fileState) # ""
    THEN "MkdirAll(config)"
    ELSE "none"

\* initConfig reaches postInitCommands.
ReachesPreset(explicitPath, fileState, fault) ==
    /\ ~(explicitPath = "" /\ fault = "dirLookup")
    /\ ReadInConfig(explicitPath, fileState) # "error"
    /\ fault # "unmarshal"

\* Lines 388-402 of the hook of instance j = HookOf(i), run by the call of
\* instance i: initConfig, the report of its error and os.Exit, or SetDebug
\* and NewPrinter.
HookInitConfig(i) ==
    /\ proc = "running"
    /\ pc[i] = "hookInit"
    /\ LET j == HookOf(i) IN
       \E fileState \in FileStates, fault \in InitFaults :
          LET e == InitConfigError(cfgFile, fileState, fault)
              preset == ReachesPreset(cfgFile, fileState, fault)
          IN
          /\ initRuns' = [initRuns EXCEPT ![i] = @ + 1]
          /\ failure' = [failure EXCEPT ![i] = InitConfigFailure(cfgFile, fileState, fault)]
          /\ IF preset /\ fault = "presetFatal"
             THEN \* log.Fatalf in presetRequiredFlags, lines 560-570
                  /\ Exit(1)
                  /\ stderr' = Write(i, "error setting flag")
                  /\ UNCHANGED << helper, pc >>
             ELSE IF e # Nil
             THEN /\ stderr' = Write(i, FormatError(format[j], e))
                  /\ Exit(FatalErrExitCode)
                  /\ UNCHANGED << helper, pc >>
             ELSE /\ helper' = [helper EXCEPT ![j].debug = TRUE, ![j].Printer = TRUE]
                  /\ pc' = [pc EXCEPT ![i] = "hookRoute"]
                  /\ UNCHANGED << stderr, proc, exitStatus >>
    /\ UNCHANGED << cfgFile, logFile, logOutput, logClosersLock, logClosers,
                    initializers, closeCalls, handlePath, commandType,
                    argFormat, format, debug, logLevel, err, rc, hookIdx,
                    routeRuns, invoked, bodyRan, fieldVars, runVars,
                    buildVars, concVars, logVars, treeVars, drainVars,
                    configVars, raceVars, argVars >>

\* Lines 404-439 of the hook of instance j = HookOf(i): the log destination.
\* With an empty log path it is the instance's standard error.  Otherwise the
\* directory is made and the file opened, each of which may fail (the error is
\* reported and the process exits), the lock is taken (its release is
\* deferred to the end of the hook) and the file's Close is appended to
\* logClosers.
RouteFaults == {"none", "mkdirLog", "openLog"}

HookRoute(i) ==
    /\ proc = "running"
    /\ pc[i] = "hookRoute"
    /\ routeRuns' = [routeRuns EXCEPT ![i] = @ + 1]
    /\ LET j == HookOf(i) IN
       IF TrimSpace(logFile) = ""
       THEN /\ logOutput' = StderrOutput
            /\ pc' = [pc EXCEPT ![i] = "hookLogger"]
            /\ UNCHANGED << proc, exitStatus, stderr, logClosersLock, logClosers,
                            closeCalls, handlePath, failure >>
       ELSE \E fault \in RouteFaults :
            IF fault # "none"
            THEN /\ stderr' = Write(i, FormatError(format[j],
                                 NewError(IF fault = "mkdirLog" THEN "mkdir: denied"
                                          ELSE "open: denied")))
                 /\ Exit(FatalErrExitCode)
                 /\ failure' = [failure EXCEPT ![i] =
                                  IF fault = "mkdirLog" THEN "MkdirAll(log)" ELSE "OpenFile(log)"]
                 /\ UNCHANGED << logOutput, pc, logClosersLock, logClosers,
                                 closeCalls, handlePath >>
            ELSE LET h == Len(closeCalls) + 1 IN
                 /\ logClosersLock = 0
                 /\ logClosersLock' = i
                 /\ closeCalls' = Append(closeCalls, 0)
                 /\ handlePath' = Append(handlePath, logFile)
                 /\ logClosers' = Append(logClosers, h)
                 /\ logOutput' = IF debug[j] THEN MultiOutput(h) ELSE FileOutput(h)
                 /\ pc' = [pc EXCEPT ![i] = "hookLogger"]
                 /\ UNCHANGED << proc, exitStatus, stderr, failure >>
    /\ UNCHANGED << cfgFile, logFile, initializers, commandType, argFormat,
                    format, debug, logLevel, helper, err, rc, hookIdx,
                    initRuns, invoked, bodyRan, fieldVars, runVars,
                    buildVars, concVars, logVars, treeVars, drainVars,
                    configVars, raceVars, argVars >>

\* logging.New(kind, name, logOutput) followed by SetLevel(c.logLevel)
NewLogger(f, out, level) ==
    [enc |-> IF f = JSON THEN "zerolog" ELSE "slog", out |-> out, level |-> level]

\* A drain whose lock is still held by the hook that registered a closer
\* waits for it: a hook that returns without releasing the lock.
HookLoggerKeepsLock(i) ==
    /\ proc = "running"
    /\ pc[i] = "hookLogger"
    /\ LET j == HookOf(i) IN
       helper' = [helper EXCEPT ![j].Logger = NewLogger(format[j], logOutput, logLevel[j])]
    /\ logClosersLock' = logClosersLock
    /\ hookIdx' = [hookIdx EXCEPT ![i] = @ + 1]
    /\ pc' = [pc EXCEPT ![i] = IF hookIdx[i] < Len(initializers)
                               THEN "hookInit" ELSE "dispatch"]
    /\ UNCHANGED << proc, exitStatus, cfgFile, logFile, logOutput,
                    logClosers, initializers, closeCalls, handlePath, stderr,
                    commandType, argFormat, format, debug, logLevel, err, rc,
                    initRuns, routeRuns, invoked, bodyRan, failure,
                    fieldVars, runVars, buildVars, concVars, logVars,
                    treeVars, drainVars, configVars, raceVars, argVars >>

\* Lines 441-448 of the hook of instance j = HookOf(i): the logger, and the
\* deferred release of the lock at the hook's return.  cobra then runs the
\* next initializer, or goes on to the command once all have run.
HookLogger(i) ==
    /\ proc = "running"
    /\ pc[i] = "hookLogger"
    /\ LET j == HookOf(i) IN
       helper' = [helper EXCEPT ![j].Logger = NewLogger(format[j], logOutput, logLevel[j])]
    /\ logClosersLock' = IF logClosersLock = i THEN 0 ELSE logClosersLock
    /\ hookIdx' = [hookIdx EXCEPT ![i] = @ + 1]
    /\ pc' = [pc EXCEPT ![i] = IF hookIdx[i] < Len(initializers)
                               THEN "hookInit" ELSE "dispatch"]
    /\ UNCHANGED << proc, exitStatus, cfgFile, logFile, logOutput,
                    logClosers, initializers, closeCalls, handlePath, stderr,
                    commandType, argFormat, format, debug, logLevel, err, rc,
                    initRuns, routeRuns, invoked, bodyRan, failure,
                    fieldVars, runVars, buildVars, concVars, logVars,
                    treeVars, drainVars, configVars, raceVars, argVars >>

\* ------------------------------------------------------------ the command
\* cobra after the initializers: argument and required-flag validation, which
\* may return an error, then the subcommand's RunE.
Dispatch(i) ==
    /\ proc = "running"
    /\ pc[i] = "dispatch"
    /\ \/ /\ err' = [err EXCEPT ![i] = NewError("required flag(s) \"name\" not set")]
          /\ failure' = [failure EXCEPT ![i] = "validate"]
          /\ pc' = [pc EXCEPT ![i] = "Classifying"]
       \/ /\ pc' = [pc EXCEPT ![i] = "body"]
          /\ UNCHANGED << err, failure >>
    /\ UNCHANGED << proc, exitStatus, cfgFile, logFile, logOutput,
                    logClosersLock, logClosers, initializers, closeCalls,
                    handlePath, stderr, commandType, argFormat, format,
                    debug, logLevel, helper, rc, hookIdx, initRuns,
                    routeRuns, invoked, bodyRan, fieldVars, runVars,
                    buildVars, concVars, logVars, treeVars, drainVars,
                    configVars, raceVars, argVars >>

\* The levels by verbosity: FatalLevel < ErrorLevel < ... < TraceLevel.
Rank(level) ==
    CASE level = "fatal" -> 0 [] level = "error" -> 1 [] level = "warn" -> 2
      [] level = "info" -> 3 [] level = "debug" -> 4 [] level = "trace" -> 5

\* A logger that lets every record through.
EnabledAlways(logger, sev) == TRUE

\* The logger writes a record of severity sev to its output: the level set
\* by SetLevel is at least as verbose as the record.
Enabled(logger, sev) == Rank(logger.level) >= Rank(sev)

\* The severities a subcommand writes records at through a logger: Fatal
\* ends the process in the zerolog logger and is not written there.
Severities(logger) ==
    {"error", "warn", "info", "debug", "trace"}
       \cup (IF logger.enc = "zerolog" THEN {} ELSE {"fatal"})

\* The records that reach the output of the logger when one record is
\* written at each of the severities sevs.
LoggerOutput(logger, sevs) ==
    { [sev |-> s, enc |-> logger.enc, out |-> logger.out] :
         s \in { x \in sevs : Enabled(logger, x) } }

\* The subcommand body (RunE) runs and returns nil or an error; sevs: the
\* severities it writes a record at through ch.Logger.
BodyFrom(i, sevs) ==
    /\ proc = "running"
    /\ pc[i] = "body"
    /\ bodyRan' = [bodyRan EXCEPT ![i] = TRUE]
    /\ logLines' = logLines \cup LoggerOutput(helper[i].Logger, sevs)
    /\ \E e \in Errors \cup {Nil} :
          /\ err' = [err EXCEPT ![i] = e]
          /\ failure' = [failure EXCEPT ![i] = IF e = Nil THEN "none" ELSE "body"]
    /\ pc' = [pc EXCEPT ![i] = "Classifying"]
    /\ UNCHANGED << proc, exitStatus, cfgFile, logFile, logOutput,
                    logClosersLock, logClosers, initializers, closeCalls,
                    handlePath, stderr, commandType, argFormat, format,
                    debug, logLevel, helper, rc, hookIdx, initRuns,
                    routeRuns, invoked, cmdline, configValid, fieldVars,
                    buildVars, concVars, logVars, treeVars, drainVars,
                    configVars, raceVars, argVars >>

Body(i) == BodyFrom(i, {})

\* ----------------------------------------------------- the tail of Execute
\* Lines 332-334: runCmd returned nil.
ExecuteReturnZero(i) ==
    /\ proc = "running"
    /\ pc[i] = "Classifying"
    /\ err[i] = Nil
    /\ rc' = [rc EXCEPT ![i] = 0]
    /\ pc' = [pc EXCEPT ![i] = "Terminated"]
    /\ UNCHANGED << proc, exitStatus, cfgFile, logFile, logOutput,
                    logClosersLock, logClosers, initializers, closeCalls,
                    handlePath, stderr, commandType, argFormat, format,
                    debug, logLevel, helper, err, hookIdx, initRuns,
                    routeRuns, invoked, bodyRan, failure, fieldVars, runVars,
                    buildVars, concVars, logVars, treeVars, drainVars,
                    configVars, raceVars, argVars >>

\* Lines 336-342: the error is written to standard error in c.format.
ExecutePrintError(i) ==
    /\ proc = "running"
    /\ pc[i] = "Classifying"
    /\ err[i] # Nil
    /\ stderr' = Write(i, FormatError(format[i], err[i]))
    /\ pc' = [pc EXCEPT ![i] = "drain"]
    /\ UNCHANGED << proc, exitStatus, cfgFile, logFile, logOutput,
                    logClosersLock, logClosers, initializers, closeCalls,
                    handlePath, commandType, argFormat, format, debug,
                    logLevel, helper, err, rc, hookIdx, initRuns, routeRuns,
                    invoked, bodyRan, failure, fieldVars, runVars, buildVars,
                    concVars, logVars, treeVars, drainVars, configVars,
                    raceVars, argVars >>

\* The handles of a list of closers.
Range(s) == { s[k] : k \in 1..Len(s) }

\* fileLogOutput.Close, the function registered at line 432, called on handle
\* h: closing a file that is already closed returns an error.
CloseLog(h) == IF closeCalls[h] > 0 THEN NewError("file already closed") ELSE Nil

\* A drain that stops at the first closer that returns an error.
ExecuteDrainStopAtError(i) ==
    /\ proc = "running"
    /\ pc[i] = "drain"
    /\ logClosersLock = 0
    /\ logClosersLock' = i
    /\ LET failing == { k \in 1..Len(logClosers) : CloseLog(logClosers[k]) # Nil }
           last == IF failing = {} THEN Len(logClosers)
                   ELSE CHOOSE k \in failing : \A j \in failing : k <= j
           called == { logClosers[k] : k \in 1..last }
       IN /\ closeCalls' = [h \in 1..Len(closeCalls) |->
                               IF h \in called THEN closeCalls[h] + 1
                               ELSE closeCalls[h]]
          /\ closeFailed' = [closeFailed EXCEPT ![i] =
                                { h \in called : CloseLog(h) # Nil }]
          /\ invoked' = [invoked EXCEPT ![i] = called]
    /\ pc' = [pc EXCEPT ![i] = "return"]
    /\ UNCHANGED << proc, exitStatus, cfgFile, logFile, logOutput,
                    logClosers, initializers, handlePath, stderr,
                    commandType, argFormat, format, debug, logLevel, helper,
                    err, rc, hookIdx, initRuns, routeRuns, bodyRan, failure,
                    fieldVars, runVars, buildVars, concVars, logVars,
                    treeVars, configVars, raceVars, argVars >>

\* Lines 344-348: the lock is taken and every function of logClosers is
\* called; the list is left as it is.
ExecuteDrain(i) ==
    /\ proc = "running"
    /\ pc[i] = "drain"
    /\ logClosersLock = 0
    /\ logClosersLock' = i
    /\ closeCalls' = [h \in 1..Len(closeCalls) |->
                        IF h \in Range(logClosers) THEN closeCalls[h] + 1
                        ELSE closeCalls[h]]
    /\ closeFailed' = [closeFailed EXCEPT ![i] =
                          { h \in Range(logClosers) : CloseLog(h) # Nil }]
    /\ invoked' = [invoked EXCEPT ![i] = Range(logClosers)]
    /\ pc' = [pc EXCEPT ![i] = "return"]
    /\ UNCHANGED << proc, exitStatus, cfgFile, logFile, logOutput,
                    logClosers, initializers, handlePath, stderr,
                    commandType, argFormat, format, debug, logLevel, helper,
                    err, rc, hookIdx, initRuns, routeRuns, bodyRan, failure,
                    fieldVars, runVars, buildVars, concVars, logVars,
                    treeVars, configVars, raceVars, argVars >>

\* Lines 350-356: the exit code of the error, and the deferred release of
\* the lock.
ExecuteReturn(i) ==
    /\ proc = "running"
    /\ pc[i] = "return"
    /\ rc' = [rc EXCEPT ![i] = ExitCodeOf(err[i])]
    /\ logClosersLock' = 0
    /\ pc' = [pc EXCEPT ![i] = "Terminated"]
    /\ UNCHANGED << proc, exitStatus, cfgFile, logFile, logOutput,
                    logClosers, initializers, closeCalls, handlePath, stderr,
                    commandType, argFormat, format, debug, logLevel, helper,
                    err, hookIdx, initRuns, routeRuns, invoked, bodyRan,
                    failure, fieldVars, runVars, buildVars, concVars,
                    logVars, treeVars, drainVars, configVars, raceVars,
                    argVars >>

Next ==
    \E i \in Instances :
        \/ Execute(i)
        \/ RunCmd(i)
        \/ ParseArgs(i)
        \/ HookInitConfig(i)
        \/ HookRoute(i)
        \/ HookLogger(i)
        \/ Dispatch(i)
        \/ Body(i)
        \/ ExecuteReturnZero(i)
        \/ ExecutePrintError(i)
        \/ ExecuteDrain(i)
        \/ ExecuteReturn(i)

Spec == Init /\ [][Next]_vars


\* ------------------------------------------------ the calls, going on
\* The first two calls of Execute of the process, as in Spec, with the steps
\* of a call that has begun going on as long as they can: the code of a call
\* is sequential, and a subcommand body that terminates is the step Body.
\* Whether and when Execute is called is up to the program.
LiveInstances == { i \in Instances : i <= 2 }

CallStep ==
    \E i \in LiveInstances :
        \/ RunCmd(i)
        \/ ParseArgs(i)
        \/ HookInitConfig(i)
        \/ HookRoute(i)
        \/ HookLogger(i)
        \/ Dispatch(i)
        \/ Body(i)
        \/ ExecuteReturnZero(i)
        \/ ExecutePrintError(i)
        \/ ExecuteDrain(i)
        \/ ExecuteReturn(i)

NextLive ==
    \/ \E i \in LiveInstances : Execute(i)
    \/ CallStep

SpecLive == Init /\ [][NextLive]_vars /\ WF_vars(CallStep)

\* ------------------------------------------------------- one run, followed
\* One Execute call of one instance in a fresh process, with its command
\* line kept, any text given to --log-level, a configuration that Validate
\* accepts or rejects, and a subcommand that writes a record at every
\* severity through the logger of its helper.
Followed == 1

InitRun ==
    /\ InitProcess
    /\ InitFieldsIdle
    /\ InitBuildIdle
    /\ InitConc
    /\ cmdline = NoCmdline
    /\ configValid \in BOOLEAN
    /\ logLines = {}
    /\ InitLogIdle
    /\ InitTreeIdle
    /\ InitDrainIdle
    /\ InitConfigIdle
    /\ InitRaceIdle
    /\ InitArgsIdle

ParseArgsRun == ParseArgsFrom(Followed, AllLevelArgs, TRUE)

BodyRun == BodyFrom(Followed, Severities(helper[Followed].Logger))

NextRun ==
    \/ Execute(Followed)
    \/ RunCmd(Followed)
    \/ ParseArgsRun
    \/ HookInitConfig(Followed)
    \/ HookRoute(Followed)
    \/ HookLogger(Followed)
    \/ Dispatch(Followed)
    \/ BodyRun
    \/ ExecuteReturnZero(Followed)
    \/ ExecutePrintError(Followed)
    \/ ExecuteDrain(Followed)
    \/ ExecuteReturn(Followed)

SpecRun == InitRun /\ [][NextRun]_vars

\* ------------------------------------------------- the development warning
\* One Execute call of one instance in a fresh process, for every choice of
\* empty and non-empty version fields of the binary and for the
\* <CLI>_DISABLE_DEV_WARNING variable absent or set to one of DevEnvValues.
DevEnvValues == {"true", "1", "false", "0", ""}

InitWarn ==
    /\ InitProcess
    /\ InitFieldsIdle
    /\ InitRunIdle
    /\ InitConc
    /\ version \in [VersionFields -> {"", "v"}]
    /\ devEnv \in {Unset} \cup DevEnvValues
    /\ InitLogIdle
    /\ InitTreeIdle
    /\ InitDrainIdle
    /\ InitConfigIdle
    /\ InitRaceIdle
    /\ InitArgsIdle

\* Execute, lines 321-331, reading the environment and the version.
ExecuteWarn ==
    ExecuteFrom(Followed, devEnv # Unset, { f \in VersionFields : version[f] = "" })

NextWarn ==
    \/ ExecuteWarn
    \/ RunCmd(Followed)
    \/ ParseArgs(Followed)
    \/ HookInitConfig(Followed)
    \/ HookRoute(Followed)
    \/ HookLogger(Followed)
    \/ Dispatch(Followed)
    \/ Body(Followed)
    \/ ExecuteReturnZero(Followed)
    \/ ExecutePrintError(Followed)
    \/ ExecuteDrain(Followed)
    \/ ExecuteReturn(Followed)

SpecWarn == InitWarn /\ [][NextWarn]_vars

\* ------------------------------------------------- concurrent Execute calls
\* Every instance is executed by a goroutine of its own, as a test harness
\* does, and the steps of the goroutines interleave.  Each step below is one
\* access to the shared closer list or to its lock; the append of line 432
\* is a read of logClosers followed by a write.  The hooks a call runs are
\* those registered in the process when cobra reads its list of
\* initializers, which the goroutines append to without synchronisation:
\* a call runs from one to MaxHooks hooks.
MaxHooks == 1

\* logClosersLock.Lock() without mutual exclusion.
LockNoWait(i) == logClosersLock' = i

\* logClosersLock.Lock(), lines 344 and 430: blocks while the lock is held.
Lock(i) ==
    /\ logClosersLock = 0
    /\ logClosersLock' = i

\* logClosersLock.Unlock(), deferred at lines 345 and 431.
Unlock(i) == logClosersLock' = 0

\* Execute, lines 321-331, and runCmd up to the initializers, or up to an
\* error that is returned before any of them runs.
ConcExecute(i) ==
    /\ pc[i] = "NotStarted"
    /\ \/ /\ pc' = [pc EXCEPT ![i] = "hook"]
          /\ hookIdx' = [hookIdx EXCEPT ![i] = 1]
          /\ UNCHANGED err
       \/ /\ pc' = [pc EXCEPT ![i] = "drainLock"]
          /\ err' = [err EXCEPT ![i] = NewError("unknown flag: --bogus")]
          /\ UNCHANGED hookIdx
    /\ UNCHANGED << proc, exitStatus, cfgFile, logFile, logOutput,
                    logClosersLock, logClosers, initializers, closeCalls,
                    handlePath, stderr, commandType, argFormat, format,
                    debug, logLevel, helper, rc, initRuns, routeRuns,
                    invoked, bodyRan, failure, fieldVars, runVars, buildVars,
                    concVars, logVars, treeVars, drainVars, configVars,
                    raceVars, argVars >>

\* A hook, lines 404-428: the log goes to standard error, or the log file is
\* opened.
ConcHookOpen(i) ==
    /\ pc[i] = "hook"
    /\ \/ /\ pc' = [pc EXCEPT ![i] = "hookEnd"]
          /\ UNCHANGED << closeCalls, handlePath, fileLogOutput >>
       \/ /\ closeCalls' = Append(closeCalls, 0)
          /\ handlePath' = Append(handlePath, "/tmp/run.log")
          /\ fileLogOutput' = [fileLogOutput EXCEPT ![i] = Len(closeCalls) + 1]
          /\ pc' = [pc EXCEPT ![i] = "lock"]
    /\ UNCHANGED << proc, exitStatus, cfgFile, logFile, logOutput,
                    logClosersLock, logClosers, initializers, stderr,
                    commandType, argFormat, format, debug, logLevel, helper,
                    err, rc, hookIdx, initRuns, routeRuns, invoked, bodyRan,
                    failure, appendRead, registered, fieldVars, runVars,
                    buildVars, logVars, treeVars, drainVars, configVars,
                    raceVars, argVars >>

\* Line 430.
ConcHookLock(i) ==
    /\ pc[i] = "lock"
    /\ Lock(i)
    /\ pc' = [pc EXCEPT ![i] = "appendRead"]
    /\ UNCHANGED << proc, exitStatus, cfgFile, logFile, logOutput,
                    logClosers, initializers, closeCalls, handlePath, stderr,
                    commandType, argFormat, format, debug, logLevel, helper,
                    err, rc, hookIdx, initRuns, routeRuns, invoked, bodyRan,
                    failure, fieldVars, runVars, buildVars, concVars,
                    logVars, treeVars, drainVars, configVars, raceVars,
                    argVars >>

\* Line 432, the argument of append is read.
ConcAppendRead(i) ==
    /\ pc[i] = "appendRead"
    /\ appendRead' = [appendRead EXCEPT ![i] = logClosers]
    /\ pc' = [pc EXCEPT ![i] = "appendWrite"]
    /\ UNCHANGED << proc, exitStatus, cfgFile, logFile, logOutput,
                    logClosersLock, logClosers, initializers, closeCalls,
                    handlePath, stderr, commandType, argFormat, format,
                    debug, logLevel, helper, err, rc, hookIdx, initRuns,
                    routeRuns, invoked, bodyRan, failure, fileLogOutput,
                    registered, fieldVars, runVars, buildVars, logVars,
                    treeVars, drainVars, configVars, raceVars, argVars >>

\* Line 432, the result of append is assigned.
ConcAppendWrite(i) ==
    /\ pc[i] = "appendWrite"
    /\ logClosers' = Append(appendRead[i], fileLogOutput[i])
    /\ registered' = [registered EXCEPT ![i] = @ \cup {fileLogOutput[i]}]
    /\ pc' = [pc EXCEPT ![i] = "hookEnd"]
    /\ UNCHANGED << proc, exitStatus, cfgFile, logFile, logOutput,
                    logClosersLock, initializers, closeCalls, handlePath,
                    stderr, commandType, argFormat, format, debug, logLevel,
                    helper, err, rc, hookIdx, initRuns, routeRuns, invoked,
                    bodyRan, failure, fileLogOutput, appendRead, fieldVars,
                    runVars, buildVars, logVars, treeVars, drainVars,
                    configVars, raceVars, argVars >>

\* The hook returns, lines 434-448: the deferred Unlock runs if the hook took
\* the lock, and cobra goes on to the next hook or to the command.
ConcHookEnd(i) ==
    /\ pc[i] = "hookEnd"
    /\ IF fileLogOutput[i] # 0 THEN Unlock(i) ELSE UNCHANGED logClosersLock
    /\ fileLogOutput' = [fileLogOutput EXCEPT ![i] = 0]
    /\ \/ /\ hookIdx[i] < MaxHooks
          /\ hookIdx' = [hookIdx EXCEPT ![i] = @ + 1]
          /\ pc' = [pc EXCEPT ![i] = "hook"]
       \/ /\ pc' = [pc EXCEPT ![i] = "body"]
          /\ UNCHANGED hookIdx
    /\ UNCHANGED << proc, exitStatus, cfgFile, logFile, logOutput,
                    logClosers, initializers, closeCalls, handlePath, stderr,
                    commandType, argFormat, format, debug, logLevel, helper,
                    err, rc, initRuns, routeRuns, invoked, bodyRan, failure,
                    appendRead, registered, fieldVars, runVars, buildVars,
                    logVars, treeVars, drainVars, configVars, raceVars,
                    argVars >>

\* The subcommand runs; Execute returns 0 at line 333 when it succeeded.
ConcBody(i) ==
    /\ pc[i] = "body"
    /\ bodyRan' = [bodyRan EXCEPT ![i] = TRUE]
    /\ \/ /\ rc' = [rc EXCEPT ![i] = 0]
          /\ pc' = [pc EXCEPT ![i] = "Terminated"]
          /\ UNCHANGED err
       \/ /\ err' = [err EXCEPT ![i] = NewError("failed")]
          /\ pc' = [pc EXCEPT ![i] = "drainLock"]
          /\ UNCHANGED rc
    /\ UNCHANGED << proc, exitStatus, cfgFile, logFile, logOutput,
                    logClosersLock, logClosers, initializers, closeCalls,
                    handlePath, stderr, commandType, argFormat, format,
                    debug, logLevel, helper, hookIdx, initRuns, routeRuns,
                    invoked, failure, fieldVars, runVars, buildVars,
                    concVars, logVars, treeVars, drainVars, configVars,
                    raceVars, argVars >>

\* Line 344.
ConcDrainLock(i) ==
    /\ pc[i] = "drainLock"
    /\ Lock(i)
    /\ pc' = [pc EXCEPT ![i] = "drain"]
    /\ UNCHANGED << proc, exitStatus, cfgFile, logFile, logOutput,
                    logClosers, initializers, closeCalls, handlePath, stderr,
                    commandType, argFormat, format, debug, logLevel, helper,
                    err, rc, hookIdx, initRuns, routeRuns, invoked, bodyRan,
                    failure, fieldVars, runVars, buildVars, concVars,
                    logVars, treeVars, drainVars, configVars, raceVars,
                    argVars >>

\* Lines 346-348: every closer of the list is called.
ConcDrain(i) ==
    /\ pc[i] = "drain"
    /\ closeCalls' = [h \in 1..Len(closeCalls) |->
                        IF h \in Range(logClosers) THEN closeCalls[h] + 1
                        ELSE closeCalls[h]]
    /\ closeFailed' = [closeFailed EXCEPT ![i] =
                          { h \in Range(logClosers) : CloseLog(h) # Nil }]
    /\ invoked' = [invoked EXCEPT ![i] = Range(logClosers)]
    /\ pc' = [pc EXCEPT ![i] = "return"]
    /\ UNCHANGED << proc, exitStatus, cfgFile, logFile, logOutput,
                    logClosersLock, logClosers, initializers, handlePath,
                    stderr, commandType, argFormat, format, debug, logLevel,
                    helper, err, rc, hookIdx, initRuns, routeRuns, bodyRan,
                    failure, fieldVars, runVars, buildVars, concVars,
                    logVars, treeVars, configVars, raceVars, argVars >>

\* Lines 350-356: Execute returns and the deferred Unlock runs.
ConcReturn(i) ==
    /\ pc[i] = "return"
    /\ Unlock(i)
    /\ rc' = [rc EXCEPT ![i] = ExitCodeOf(err[i])]
    /\ pc' = [pc EXCEPT ![i] = "Terminated"]
    /\ UNCHANGED << proc, exitStatus, cfgFile, logFile, logOutput,
                    logClosers, initializers, closeCalls, handlePath, stderr,
                    commandType, argFormat, format, debug, logLevel, helper,
                    err, hookIdx, initRuns, routeRuns, invoked, bodyRan,
                    failure, fieldVars, runVars, buildVars, concVars,
                    logVars, treeVars, drainVars, configVars, raceVars,
                    argVars >>

NextConc ==
    \E i \in Instances :
        \/ ConcExecute(i)
        \/ ConcHookOpen(i)
        \/ ConcHookLock(i)
        \/ ConcAppendRead(i)
        \/ ConcAppendWrite(i)
        \/ ConcHookEnd(i)
        \/ ConcBody(i)
        \/ ConcDrainLock(i)
        \/ ConcDrain(i)
        \/ ConcReturn(i)

SpecConc == Init /\ [][NextConc]_vars

\* ------------------------------------------- package log, function by function
\* A Format variable holding any value is set from any of FormatTexts or from
\* its own String, and loggers are made by New from every logFile, level and
\* format.
InitLog ==
    /\ InitProcess
    /\ InitFieldsIdle
    /\ InitRunIdle
    /\ InitBuildIdle
    /\ InitConc
    /\ logFormat \in LogFormats
    /\ setArg = << >>
    /\ setRecv = logFormat
    /\ setErr = NoError
    /\ slogLogger = NoSlogLogger
    /\ InitTreeIdle
    /\ InitDrainIdle
    /\ InitConfigIdle
    /\ InitRaceIdle
    /\ InitArgsIdle

\* f.Set(s)
SetFormat ==
    /\ \E s \in FormatTexts :
          /\ setArg' = s
          /\ setRecv' = logFormat
          /\ logFormat' = FormatSet(logFormat, s).f
          /\ setErr' = FormatSet(logFormat, s).err
    /\ UNCHANGED << slogLogger, processVars, fieldVars, runVars, buildVars,
                    concVars, treeVars, drainVars, configVars, raceVars,
                    argVars >>

\* f.Set(f.String())
SetFormatString ==
    /\ setArg' = FormatString(logFormat)
    /\ setRecv' = logFormat
    /\ logFormat' = FormatSet(logFormat, FormatString(logFormat)).f
    /\ setErr' = FormatSet(logFormat, FormatString(logFormat)).err
    /\ UNCHANGED << slogLogger, processVars, fieldVars, runVars, buildVars,
                    concVars, treeVars, drainVars, configVars, raceVars,
                    argVars >>

\* log.New(logFile, level, format)
NewLog ==
    /\ \E file \in LogFileArgs, level \in SlogLevels, f \in LogFormats :
          slogLogger' = New(file, level, f)
    /\ UNCHANGED << logFormat, setArg, setRecv, setErr, processVars,
                    fieldVars, runVars, buildVars, concVars, treeVars,
                    drainVars, configVars, raceVars, argVars >>

NextLog ==
    \/ SetFormat
    \/ SetFormatString
    \/ NewLog

SpecLog == InitLog /\ [][NextLog]_vars

\* ------------------------------------------------- resolution of the fields
\* One run of a subcommand, followed field by field: cobra parses the command
\* line, the initializer's initConfig reads the configuration file and calls
\* presetRequiredFlags on the command, cobra validates the required flags and
\* calls the subcommand's RunE, which reads the flags.

\* pflag's FlagSet.Set, called at line 567 and by cobra for each flag of the
\* command line: the value is stored and the flag marked as changed.
PflagSet(fl, v) == [fl EXCEPT !.Value = v, !.Changed = TRUE]

\* An environment lookup that lets an empty variable through, as viper does
\* under AllowEmptyEnv.
GetEnvAllowEmpty(f) == environ[f]

\* viper's environment lookup under AutomaticEnv, line 519: a variable that is
\* not in the environment or is empty yields nothing.
GetEnv(f) == IF environ[f] = "" THEN Unset ELSE environ[f]

\* A search with the environment ahead of the changed flag.
ViperFindEnvFirst(f) ==
    IF GetEnv(f) # Unset THEN GetEnv(f)
    ELSE IF flags[f].Changed THEN flags[f].Value
    ELSE viperConfig[f]

\* A search with the configuration file ahead of the environment.
ViperFindFileFirst(f) ==
    IF flags[f].Changed THEN flags[f].Value
    ELSE IF viperConfig[f] # Unset THEN viperConfig[f]
    ELSE GetEnv(f)

\* viper's search for the key of a flag bound at line 560: the flag when it
\* was changed, else the environment, else the configuration file read at
\* line 522, else nothing.
ViperFind(f) ==
    IF flags[f].Changed THEN flags[f].Value
    ELSE IF GetEnv(f) # Unset THEN GetEnv(f)
    ELSE viperConfig[f]

\* viper.IsSet(f.Name), line 565
IsSet(f) == ViperFind(f) # Unset

\* viper.GetString(f.Name), lines 565-566: a key that is not set yields the
\* value of the bound flag, its default.
GetString(f) == IF ViperFind(f) # Unset THEN ViperFind(f) ELSE flags[f].Value

\* The visit of one flag without the test for the empty string.
PresetFlagAnyValue(f) ==
    IF IsSet(f) THEN PflagSet(flags[f], GetString(f)) ELSE flags[f]

\* The function given to VisitAll, lines 564-571, applied to flag f.
PresetFlag(f) ==
    IF IsSet(f) /\ GetString(f) # ""
    THEN PflagSet(flags[f], GetString(f))
    ELSE flags[f]

\* The flags cobra's required-flag validation finds not set.
MissingRequired == { f \in Fields : required[f] /\ ~flags[f].Changed }

\* The run begins with any declaration of the flags and any content of the
\* command line, the environment and the configuration file.
InitFields ==
    /\ osArgs \in [Fields -> FlagValues]
    /\ environ \in [Fields -> EnvValues]
    /\ configFile \in [Fields -> FileValues]
    /\ required \in [Fields -> BOOLEAN]
    /\ \E def \in [Fields -> DefValues] : flags = [f \in Fields |-> NewFlag(def[f])]
    /\ viperConfig = [f \in Fields |-> Unset]
    /\ rpc = "ParseFlags"
    /\ validateErr = {}
    /\ resolved = [f \in Fields |-> Unset]

InitResolve ==
    /\ InitProcess
    /\ InitFields
    /\ InitRunIdle
    /\ InitBuildIdle
    /\ InitConc
    /\ InitLogIdle
    /\ InitTreeIdle
    /\ InitDrainIdle
    /\ InitConfigIdle
    /\ InitRaceIdle
    /\ InitArgsIdle

\* cobra parses the command line of the executed command, within
\* ExecuteContext, line 493.
ParseFlags ==
    /\ rpc = "ParseFlags"
    /\ flags' = [f \in Fields |->
                   IF osArgs[f] # Unset THEN PflagSet(flags[f], osArgs[f]) ELSE flags[f]]
    /\ rpc' = "initConfig"
    /\ UNCHANGED << osArgs, environ, configFile, required, viperConfig,
                    validateErr, resolved >>
    /\ UNCHANGED << processVars, runVars, buildVars, concVars, logVars, treeVars, drainVars, configVars, raceVars, argVars >>

\* An initConfig that calls postInitCommands before viper has read the
\* configuration file.
ViperReadInConfigLate ==
    /\ rpc = "initConfig"
    /\ viperConfig' = viperConfig
    /\ rpc' = "presetRequiredFlags"
    /\ UNCHANGED << osArgs, environ, configFile, required, flags, validateErr,
                    resolved >>
    /\ UNCHANGED << processVars, runVars, buildVars, concVars, logVars, treeVars, drainVars, configVars, raceVars, argVars >>

\* initConfig up to the call of postInitCommands, lines 517-534: viper reads
\* the configuration file.
ViperReadInConfig ==
    /\ rpc = "initConfig"
    /\ viperConfig' = configFile
    /\ rpc' = "presetRequiredFlags"
    /\ UNCHANGED << osArgs, environ, configFile, required, flags, validateErr,
                    resolved >>
    /\ UNCHANGED << processVars, runVars, buildVars, concVars, logVars, treeVars, drainVars, configVars, raceVars, argVars >>

\* presetRequiredFlags on the executed command, lines 559-576.
presetRequiredFlags ==
    /\ rpc = "presetRequiredFlags"
    /\ flags' = [f \in Fields |-> PresetFlag(f)]
    /\ rpc' = "ValidateRequiredFlags"
    /\ UNCHANGED << osArgs, environ, configFile, required, viperConfig,
                    validateErr, resolved >>
    /\ UNCHANGED << processVars, runVars, buildVars, concVars, logVars, treeVars, drainVars, configVars, raceVars, argVars >>

\* cobra's validation of the required flags, after the initializers and before
\* RunE: a required flag that was never set is an error, and RunE is not called.
ValidateRequiredFlags ==
    /\ rpc = "ValidateRequiredFlags"
    /\ validateErr' = MissingRequired
    /\ rpc' = IF MissingRequired = {} THEN "RunE" ELSE "rejected"
    /\ UNCHANGED << osArgs, environ, configFile, required, flags, viperConfig,
                    resolved >>
    /\ UNCHANGED << processVars, runVars, buildVars, concVars, logVars, treeVars, drainVars, configVars, raceVars, argVars >>

\* The subcommand's RunE reads the flags.
RunE ==
    /\ rpc = "RunE"
    /\ resolved' = [f \in Fields |-> flags[f].Value]
    /\ rpc' = "done"
    /\ UNCHANGED << osArgs, environ, configFile, required, flags, viperConfig,
                    validateErr >>
    /\ UNCHANGED << processVars, runVars, buildVars, concVars, logVars, treeVars, drainVars, configVars, raceVars, argVars >>

NextResolve ==
    \/ ParseFlags
    \/ ViperReadInConfig
    \/ presetRequiredFlags
    \/ ValidateRequiredFlags
    \/ RunE

SpecResolve == InitResolve /\ [][NextResolve]_vars

\* --------------------------------------------------------- the command tree
\* One run over a tree of commands: the setup functions added run and list
\* under the root command and sub under run, each command declares one local
\* and one persistent flag, all of them required, and the command line names
\* any one of the commands.
TreeCommands == {"root", "run", "list", "sub"}
TreeFlags == TreeCommands \X {"local", "persistent"}

\* cmd.Commands(), the children of a command, as at lines 553-554
Commands(c) ==
    IF c = "root" THEN << "run", "list" >>
    ELSE IF c = "run" THEN << "sub" >>
    ELSE << >>

\* The commands from the root down to c, those cobra's Traverse passes
\* through (TraverseChildren, line 305) when the command line names c.
CommandPath(c) ==
    IF c = "root" THEN << "root" >>
    ELSE IF c = "sub" THEN << "root", "run", "sub" >>
    ELSE << "root", c >>

\* cmd.Flags() when the initializers run, lines 560 and 564: the local flag of
\* the command, and, for a command whose flags cobra has parsed, the
\* persistent flags of the command and of its parents, which cobra merges
\* into the flag set when it parses.
CmdFlags(c) ==
    { << c, "local" >> } \cup
    IF c \in Range(CommandPath(executed))
    THEN { << p, "persistent" >> : p \in Range(CommandPath(c)) }
    ELSE {}

\* The commands postInitCommands(commands) hands to presetRequiredFlags, in
\* the order of the calls, lines 550-557.
RECURSIVE PostInitOrder(_)
PostInitOrder(commands) ==
    IF commands = << >> THEN << >>
    ELSE << Head(commands) >> \o
         (IF Commands(Head(commands)) # << >>
          THEN PostInitOrder(Commands(Head(commands))) ELSE << >>) \o
         PostInitOrder(Tail(commands))

InitTree ==
    /\ InitProcess
    /\ InitRunIdle
    /\ InitBuildIdle
    /\ InitConc
    /\ InitLogIdle
    /\ executed \in TreeCommands
    /\ osArgs \in [TreeFlags -> {Unset, "a"}]
    /\ \A f \in TreeFlags :
          f[1] \notin Range(CommandPath(executed)) => osArgs[f] = Unset
    /\ environ \in [TreeFlags -> {Unset, "e"}]
    /\ configFile \in {[f \in TreeFlags |-> Unset], [f \in TreeFlags |-> "f"]}
    /\ required = [f \in TreeFlags |-> TRUE]
    /\ flags = [f \in TreeFlags |-> NewFlag("d")]
    /\ viperConfig = [f \in TreeFlags |-> Unset]
    /\ rpc = "ParseFlags"
    /\ validateErr = {}
    /\ resolved = [f \in TreeFlags |-> Unset]
    /\ InitDrainIdle
    /\ InitConfigIdle
    /\ InitRaceIdle
    /\ InitArgsIdle

\* cobra's Traverse parses the flags of every command down to the executed
\* one, within ExecuteContext, line 493.
Traverse ==
    /\ rpc = "ParseFlags"
    /\ flags' = [f \in TreeFlags |->
                   IF osArgs[f] # Unset THEN PflagSet(flags[f], osArgs[f]) ELSE flags[f]]
    /\ rpc' = "initConfig"
    /\ UNCHANGED << osArgs, environ, configFile, required, viperConfig,
                    validateErr, resolved >>
    /\ UNCHANGED << processVars, runVars, buildVars, concVars, logVars, treeVars, drainVars, configVars, raceVars, argVars >>

\* c.postInitCommands(c.command.Commands()), line 534: presetRequiredFlags on
\* every command below the root command, each over the flags of cmd.Flags().
postInitCommands ==
    /\ rpc = "presetRequiredFlags"
    /\ LET order == PostInitOrder(Commands("root"))
       IN flags' = [f \in TreeFlags |->
                      IF \E k \in 1..Len(order) : f \in CmdFlags(order[k])
                      THEN PresetFlag(f) ELSE flags[f]]
    /\ rpc' = "ValidateRequiredFlags"
    /\ UNCHANGED << osArgs, environ, configFile, required, viperConfig,
                    validateErr, resolved >>
    /\ UNCHANGED << processVars, runVars, buildVars, concVars, logVars, treeVars, drainVars, configVars, raceVars, argVars >>

\* cobra's validation of the required flags of the executed command.
ValidateExecuted ==
    /\ rpc = "ValidateRequiredFlags"
    /\ validateErr' = { f \in CmdFlags(executed) : required[f] /\ ~flags[f].Changed }
    /\ rpc' = IF validateErr' = {} THEN "RunE" ELSE "rejected"
    /\ UNCHANGED << osArgs, environ, configFile, required, flags, viperConfig,
                    resolved >>
    /\ UNCHANGED << processVars, runVars, buildVars, concVars, logVars, treeVars, drainVars, configVars, raceVars, argVars >>

NextTree ==
    \/ Traverse
    \/ ViperReadInConfig
    \/ postInitCommands
    \/ ValidateExecuted

SpecTree == InitTree /\ [][NextTree]_vars

\* ------------------------------------------------- one initConfig, followed
\* One run of initConfig in a fresh process, with the --config path, the state
\* of the configuration file, a fault of the environment, the number of
\* commands below the root command and the state of the file's directory when
\* MkdirAll is called.
MaxCommands == 2

\* The path the configuration holds after postInitCommands, lines 534 and
\* 574: presetRequiredFlags calls c.config.SetConfigFile(viper.ConfigFileUsed())
\* once for every command it is called on, so with no command below the root
\* the configuration keeps what it held.
SetConfigFile(before, used, commands) == IF commands > 0 THEN used ELSE before

\* os.MkdirAll(dir, 0700), line 537: nil for a directory that exists; a
\* directory that is not there is made, unless the fault prevents it.
MkdirAll(dir, fault) ==
    IF dir = "exists" THEN [err |-> Nil, dir |-> "exists"]
    ELSE IF fault = "mkdirConfig"
    THEN [err |-> NewError("mkdir: denied"), dir |-> "absent"]
    ELSE [err |-> Nil, dir |-> "exists"]

InitConfigRuns ==
    /\ InitProcess
    /\ InitFieldsIdle
    /\ InitRunIdle
    /\ InitBuildIdle
    /\ InitConc
    /\ InitLogIdle
    /\ InitTreeIdle
    /\ InitDrainIdle
    /\ configRun \in [cfgFile : {"", "/tmp/cfg.yaml"}, fileState : FileStates,
                      fault : InitFaults, commands : 0..MaxCommands,
                      dir : {"exists", "absent"}]
    /\ configEnd = [outcome |-> "idle", err |-> Nil, configFile |-> "", dir |-> configRun.dir]
    /\ InitRaceIdle
    /\ InitArgsIdle

\* initConfig, lines 497-546, and what the hook does with its error.
InitConfig ==
    /\ configEnd.outcome = "idle"
    /\ LET in == configRun
           early == InitConfigError(in.cfgFile, in.fileState,
                                    IF in.fault = "mkdirConfig" THEN "none" ELSE in.fault)
           used == ReadInConfig(in.cfgFile, in.fileState)
           recorded == SetConfigFile("", used, in.commands)
           made == MkdirAll(in.dir, in.fault)
       IN configEnd' =
            IF early # Nil
            THEN [outcome |-> "error", err |-> early, configFile |-> "", dir |-> in.dir]
            ELSE IF in.fault = "presetFatal" /\ in.commands > 0
            THEN [outcome |-> "fatal", err |-> Nil, configFile |-> "", dir |-> in.dir]
            ELSE IF recorded = ""
            THEN [outcome |-> "ok", err |-> Nil, configFile |-> "", dir |-> in.dir]
            ELSE IF made.err # Nil
            THEN [outcome |-> "error",
                  err |-> Wrap("failed to create configuration directory: ", made.err),
                  configFile |-> recorded, dir |-> made.dir]
            ELSE [outcome |-> "ok", err |-> Nil, configFile |-> recorded, dir |-> made.dir]
    /\ UNCHANGED << configRun, processVars, fieldVars, runVars, buildVars,
                    concVars, logVars, treeVars, drainVars, raceVars,
                    argVars >>

NextConfig == InitConfig

SpecConfig == InitConfigRuns /\ [][NextConfig]_vars

\* ------------------------------------------- two calls of Execute at once
\* Two goroutines each call Execute on an instance of their own in one
\* process.  The process has one command line (cobra reads os.Args), kept in
\* cmdline; each call is of either command type, which decides the default of
\* --log.  logFile and logOutput are package variables, lines 291-294, read
\* and written without synchronisation, and cobra's initializers are
\* process-wide: every step below is one access to them, and the steps of the
\* two goroutines interleave.
Racers == {1, 2}

InitRace ==
    /\ InitProcess
    /\ InitFieldsIdle
    /\ InitBuildIdle
    /\ InitConc
    /\ InitLogIdle
    /\ InitTreeIdle
    /\ InitDrainIdle
    /\ InitConfigIdle
    /\ InitRaceIdle
    /\ cmdline \in { [NoCmdline EXCEPT !.log = l, !.debug = d] :
                       l \in {Unset, "/tmp/run.log"}, d \in BOOLEAN }
    /\ configValid = TRUE
    /\ logLines = {}
    /\ InitArgsIdle

\* Execute and runCmd up to ExecuteContext, lines 321-491: the flags are
\* registered, which sets logFile to the default log path of the call's
\* command type (line 381), and the hook is appended to the initializers.
RaceRunCmd(i) ==
    /\ pc[i] = "NotStarted"
    /\ \E t \in Types :
          /\ commandType' = [commandType EXCEPT ![i] = t]
          /\ logFile' = logPath(t)
    /\ helper' = [helper EXCEPT ![i] = NewHelper]
    /\ initializers' = Append(initializers, i)
    /\ debug' = [debug EXCEPT ![i] = FALSE]
    /\ pc' = [pc EXCEPT ![i] = "parse"]
    /\ UNCHANGED << proc, exitStatus, cfgFile, logOutput, logClosersLock,
                    logClosers, closeCalls, handlePath, stderr, argFormat,
                    format, logLevel, err, rc, hookIdx, initRuns, routeRuns,
                    invoked, bodyRan, failure, fieldVars, runVars, buildVars,
                    concVars, logVars, treeVars, drainVars, configVars,
                    raceVars, argVars >>

\* ExecuteContext, line 493, up to the initializers: cobra parses the command
\* line into the variables the flags are bound to and starts to range over
\* the initializers registered so far.
RaceParse(i) ==
    /\ pc[i] = "parse"
    /\ logFile' = IF cmdline.log = Unset THEN logFile ELSE cmdline.log
    /\ debug' = [debug EXCEPT ![i] = cmdline.debug]
    /\ hookList' = [hookList EXCEPT ![i] = initializers]
    /\ hookIdx' = [hookIdx EXCEPT ![i] = 1]
    /\ pc' = [pc EXCEPT ![i] = "hook"]
    /\ UNCHANGED << proc, exitStatus, cfgFile, logOutput, logClosersLock,
                    logClosers, initializers, closeCalls, handlePath, stderr,
                    commandType, argFormat, format, logLevel, helper, err,
                    rc, initRuns, routeRuns, invoked, bodyRan, failure,
                    fieldVars, runVars, buildVars, concVars, logVars,
                    treeVars, drainVars, configVars, argVars >>

\* Lines 404-428 of the hook the call of instance i runs next: logFile is
\* read; the log goes to standard error, or the file at that path is opened.
RaceHookOpen(i) ==
    /\ pc[i] = "hook"
    /\ IF TrimSpace(logFile) = ""
       THEN /\ logOutput' = StderrOutput
            /\ pc' = [pc EXCEPT ![i] = "hookLogger"]
            /\ UNCHANGED << closeCalls, handlePath, fileLogOutput >>
       ELSE /\ closeCalls' = Append(closeCalls, 0)
            /\ handlePath' = Append(handlePath, logFile)
            /\ fileLogOutput' = [fileLogOutput EXCEPT ![i] = Len(closeCalls) + 1]
            /\ pc' = [pc EXCEPT ![i] = "hookLock"]
            /\ UNCHANGED logOutput
    /\ UNCHANGED << proc, exitStatus, cfgFile, logFile, logClosersLock,
                    logClosers, initializers, stderr, commandType, argFormat,
                    format, debug, logLevel, helper, err, rc, hookIdx,
                    initRuns, routeRuns, invoked, bodyRan, failure,
                    appendRead, registered, fieldVars, runVars, buildVars,
                    logVars, treeVars, drainVars, configVars, raceVars,
                    argVars >>

\* Lines 430-438: under the lock the closer is registered and logOutput set
\* to the file, mirrored to standard error when the hook's instance is in
\* debug mode.
RaceHookLock(i) ==
    /\ pc[i] = "hookLock"
    /\ Lock(i)
    /\ logClosers' = Append(logClosers, fileLogOutput[i])
    /\ logOutput' = IF debug[hookList[i][hookIdx[i]]]
                    THEN MultiOutput(fileLogOutput[i])
                    ELSE FileOutput(fileLogOutput[i])
    /\ pc' = [pc EXCEPT ![i] = "hookLogger"]
    /\ UNCHANGED << proc, exitStatus, cfgFile, logFile, initializers,
                    closeCalls, handlePath, stderr, commandType, argFormat,
                    format, debug, logLevel, helper, err, rc, hookIdx,
                    initRuns, routeRuns, invoked, bodyRan, failure,
                    fieldVars, runVars, buildVars, concVars, logVars,
                    treeVars, drainVars, configVars, raceVars, argVars >>

\* Lines 441-448: the logger of the hook's instance is made over logOutput,
\* the hook returns, which releases the lock if the hook took it, and cobra
\* goes on to the next initializer or to the command.
RaceHookLogger(i) ==
    /\ pc[i] = "hookLogger"
    /\ LET j == hookList[i][hookIdx[i]] IN
       helper' = [helper EXCEPT ![j].Logger = NewLogger(format[j], logOutput, logLevel[j])]
    /\ logClosersLock' = IF logClosersLock = i THEN 0 ELSE logClosersLock
    /\ fileLogOutput' = [fileLogOutput EXCEPT ![i] = 0]
    /\ IF hookIdx[i] < Len(hookList[i])
       THEN /\ hookIdx' = [hookIdx EXCEPT ![i] = @ + 1]
            /\ pc' = [pc EXCEPT ![i] = "hook"]
       ELSE /\ pc' = [pc EXCEPT ![i] = "body"]
            /\ UNCHANGED hookIdx
    /\ UNCHANGED << proc, exitStatus, cfgFile, logFile, logOutput,
                    logClosers, initializers, closeCalls, handlePath, stderr,
                    commandType, argFormat, format, debug, logLevel, err, rc,
                    initRuns, routeRuns, invoked, bodyRan, failure,
                    appendRead, registered, fieldVars, runVars, buildVars,
                    logVars, treeVars, drainVars, configVars, raceVars,
                    argVars >>

\* The subcommand runs and writes to its logger; Execute returns 0, line 333.
RaceBody(i) ==
    /\ pc[i] = "body"
    /\ bodyRan' = [bodyRan EXCEPT ![i] = TRUE]
    /\ rc' = [rc EXCEPT ![i] = 0]
    /\ pc' = [pc EXCEPT ![i] = "Terminated"]
    /\ UNCHANGED << proc, exitStatus, cfgFile, logFile, logOutput,
                    logClosersLock, logClosers, initializers, closeCalls,
                    handlePath, stderr, commandType, argFormat, format,
                    debug, logLevel, helper, err, hookIdx, initRuns,
                    routeRuns, invoked, failure, fieldVars, runVars,
                    buildVars, concVars, logVars, treeVars, drainVars,
                    configVars, raceVars, argVars >>

NextRace ==
    \E i \in Racers :
        \/ RaceRunCmd(i)
        \/ RaceParse(i)
        \/ RaceHookOpen(i)
        \/ RaceHookLock(i)
        \/ RaceHookLogger(i)
        \/ RaceBody(i)

SpecRace == InitRace /\ [][NextRace]_vars

\* ------------------------------------------------------------ RequiredArgs
\* The validator RequiredArgs(reqArgs...) returns, src/cmdutils.go, applied to
\* the arguments of a command line.  A text the code builds with Sprintf or
\* Join is the sequence of its pieces.
MaxArgs == 3
ArgNames == {"id", "name", "org"}
ArgValues == {"x"}

\* The sequences over S of length at most n.
SeqsUpTo(S, n) == UNION { [1..k -> S] : k \in 0..n }

\* strings.Join(elems, sep), line 56
RECURSIVE Join(_, _)
Join(elems, sep) ==
    IF elems = << >> THEN << >>
    ELSE IF Len(elems) = 1 THEN elems
    ELSE << Head(elems), sep >> \o Join(Tail(elems), sep)

\* cmd.UsageString(), line 61
UsageString == "Usage: app run <id> <name> <org>"

\* A validator that counts one argument too many as supplied.
RequiredArgsOffByOne(reqArgs, args) ==
    IF Len(args) >= Len(reqArgs) THEN Nil
    ELSE LET missing == SubSeq(reqArgs, Len(args) + 2, Len(reqArgs))
             a == IF Len(missing) = 1
                  THEN << "argument", " <", missing[1], ">" >>
                  ELSE << "arguments", " <" >> \o Join(missing, ", ") \o << ">" >>
         IN << "missing " >> \o a \o << " \n\n", UsageString >>

\* RequiredArgs(reqArgs...)(cmd, args), lines 47-62
RequiredArgs(reqArgs, args) ==
    IF Len(args) >= Len(reqArgs) THEN Nil
    ELSE LET missing == SubSeq(reqArgs, Len(args) + 1, Len(reqArgs))
             a == IF Len(missing) = 1
                  THEN << "argument", " <", missing[1], ">" >>
                  ELSE << "arguments", " <" >> \o Join(missing, ", ") \o << ">" >>
         IN << "missing " >> \o a \o << " \n\n", UsageString >>

InitArgs ==
    /\ InitProcess
    /\ InitFieldsIdle
    /\ InitRunIdle
    /\ InitBuildIdle
    /\ InitConc
    /\ InitLogIdle
    /\ InitTreeIdle
    /\ InitDrainIdle
    /\ InitConfigIdle
    /\ InitRaceIdle
    /\ validated \in [reqArgs : SeqsUpTo(ArgNames, MaxArgs),
                      args : SeqsUpTo(ArgValues, MaxArgs + 1)]
    /\ validateArgsErr = [called |-> FALSE, err |-> Nil]

\* cobra calls the validator with the arguments of the command line.
ValidateArgs ==
    /\ ~validateArgsErr.called
    /\ validateArgsErr' = [called |-> TRUE,
                           err |-> RequiredArgs(validated.reqArgs, validated.args)]
    /\ UNCHANGED << validated, processVars, fieldVars, runVars, buildVars,
                    concVars, logVars, treeVars, drainVars, configVars,
                    raceVars >>

NextArgs == ValidateArgs

SpecArgs == InitArgs /\ [][NextArgs]_vars

\* ------------------------------------------------------------------ claims
\* The call of instance i has handed its exit code to the process: Execute
\* returned it, or the process exited during the call.
Returned(i) == pc[i] = "Terminated" /\ rc[i] # -1
ExitedIn(i) == proc = "exited" /\ Active(i)

\* C1: every call of Execute has invoked every function of the closer
\* registry by the time it returns its exit code or exits the process, on the
\* success path, the failure path and the early fatal-exit paths alike.
C1_ClosersInvokedOnEveryExit ==
    \A i \in Instances :
        (Returned(i) \/ ExitedIn(i)) => Range(logClosers) \subseteq invoked[i]

\* C2: a log file handle is closed exactly once: no registered closer is ever
\* invoked more than once, and once a call has returned and none is in
\* progress every registered closer has been invoked.
C2_NeverClosedTwice ==
    \A h \in 1..Len(closeCalls) : closeCalls[h] <= 1

C2_ClosedExactlyOnce ==
    /\ C2_NeverClosedTwice
    /\ (\E i \in Instances : Returned(i))
          => \A h \in Range(logClosers) : closeCalls[h] = 1

\* C3: Execute returns 0 when runCmd returned no error, the ExitCode of the
\* cmdutils.Error when the error is or wraps one, and FatalErrExitCode for
\* every other error.
IsCmdError(l) == l.type = "cmdutils.Error"

C3_ExitClassification ==
    \A i \in Instances :
        Returned(i) =>
            rc[i] = IF err[i] = Nil THEN 0
                    ELSE IF \E k \in 1..Len(err[i]) : IsCmdError(err[i][k])
                    THEN err[i][CHOOSE k \in 1..Len(err[i]) : IsCmdError(err[i][k])].ExitCode
                    ELSE 2

\* A subcommand returned an error that wraps a cmdutils.Error with exit code 1
\* and Execute returned 1.
C3_Witness ==
    \E i \in Instances :
        /\ Returned(i)
        /\ failure[i] = "body"
        /\ Len(err[i]) = 2
        /\ rc[i] = 1

\* C4: Execute returns 0 only when the command tree completed without error;
\* whatever error a failed call ends with, its exit code is not 0.
C4_ZeroOnlyOnSuccess ==
    \A i \in Instances :
        (Returned(i) /\ rc[i] = 0) => (err[i] = Nil /\ failure[i] = "none")

\* presetRequiredFlags has run on the executed command.
Preset == rpc \in {"ValidateRequiredFlags", "RunE", "rejected", "done"}

\* A source supplies a value for field f when it holds a non-empty one.
FlagExplicit(f) == osArgs[f] # Unset
EnvSupplies(f) == environ[f] \notin {Unset, ""}
FileSupplies(f) == configFile[f] \notin {Unset, ""}

C6_EnvWinsWhenSet ==
    \A f \in Fields :
        (~FlagExplicit(f) /\ environ[f] # Unset /\ Preset) =>
            /\ flags[f].Value = environ[f]
            /\ f \notin MissingRequired
            /\ f \notin validateErr
            /\ rpc = "done" => resolved[f] = environ[f]

\* C6, amended: the same for every field whose flag is not explicitly set and
\* whose environment variable is set to a non-empty value.
C6_NonEmptyEnvWins ==
    \A f \in Fields :
        (~FlagExplicit(f) /\ EnvSupplies(f) /\ Preset) =>
            /\ flags[f].Value = environ[f]
            /\ f \notin MissingRequired
            /\ f \notin validateErr
            /\ rpc = "done" => resolved[f] = environ[f]

\* The subcommand read the environment's value of a required flag that was not
\* on the command line and whose configuration key held another value.
C6_Witness ==
    \E f \in Fields :
        /\ rpc = "done"
        /\ required[f]
        /\ osArgs[f] = Unset /\ environ[f] = "e" /\ viperConfig[f] = "f"
        /\ resolved[f] = "e"

\* C7: for every field that neither the command line, nor the environment,
\* nor the configuration file supplies a value for, the flag holds its
\* declared default once presetRequiredFlags has run, and the subcommand
\* reads the default.
C7_DefaultWhenNothingSupplies ==
    \A f \in Fields :
        (~FlagExplicit(f) /\ ~EnvSupplies(f) /\ ~FileSupplies(f) /\ Preset) =>
            /\ flags[f].Value = flags[f].DefValue
            /\ rpc = "done" => resolved[f] = flags[f].DefValue

\* The subcommand read the default of a flag that no source supplied, while
\* the other field was supplied by its environment variable.
C7_Witness ==
    \E f \in Fields, g \in Fields :
        /\ rpc = "done"
        /\ osArgs[f] = Unset /\ environ[f] = Unset /\ viperConfig[f] = Unset
        /\ flags[f].DefValue = "d" /\ resolved[f] = "d"
        /\ resolved[g] = "e"

\* C8: when a subcommand body starts, configuration resolution and log routing
\* have each run exactly once in that call, and the Helper's Config, Printer,
\* Logger and debug flag are set; also for the later instances of a process.
C8_InitializedExactlyOnce ==
    \A i \in Instances :
        pc[i] = "body" =>
            /\ initRuns[i] = 1
            /\ routeRuns[i] = 1
            /\ helper[i].Config /\ helper[i].Printer /\ helper[i].debug
            /\ helper[i].Logger # NoLogger

\* C9: when configuration resolution or log setup fails (default-directory
\* lookup, parse, unmarshal, configuration-directory creation, log-directory
\* creation, log-file open) the exit code is 2 and no subcommand body runs.
SetupFailures ==
    {"DefaultConfigDir", "DefaultLogDir", "initConfig.DefaultConfigDir",
     "ReadInConfig", "ReadInConfig(missing)", "Unmarshal", "MkdirAll(config)",
     "MkdirAll(log)",
     "OpenFile(log)"}

C9_SetupFailureIsFatal ==
    \A i \in Instances :
        failure[i] \in SetupFailures =>
            /\ ~bodyRan[i]
            /\ pc[i] # "body"
            /\ ExitedIn(i) => exitStatus = 2
            /\ Returned(i) => rc[i] = 2

\* C10: with --format=json on the command line, a fatal resolution error
\* (default-directory lookup, parse, directory creation) is written to
\* standard error as {"error": "<message>"} and the exit code is 2.
ResolutionFailures ==
    {"DefaultConfigDir", "initConfig.DefaultConfigDir", "ReadInConfig",
     "ReadInConfig(missing)", "MkdirAll(config)"}

ResolutionMessages ==
    {"no home",
     "failed to read default configuration directory: no home",
     "failed to read configuration: bad file",
     "failed to read configuration: open: no such file or directory",
     "failed to create configuration directory: denied"}

JSONRequested(i) == argFormat[i] = JSON \/ format[i] = JSON

C10_JSONErrorPayload ==
    \A i \in Instances :
        (JSONRequested(i) /\ failure[i] \in ResolutionFailures
           /\ (Returned(i) \/ ExitedIn(i))) =>
            /\ \E k \in 1..Len(stderr), m \in ResolutionMessages :
                  stderr[k] = [call |-> i, text |-> "{\"error\": \"" \o m \o "\"}"]
            /\ ExitedIn(i) => exitStatus = 2
            /\ Returned(i) => rc[i] = 2

\* C11: a call that ends with a fatal error (an initialization error that
\* exits the process, or an error returned to Execute by runCmd) has written
\* exactly one error report to standard error, and that report is the error's
\* message in the encoding of the active format: {"error": "<message>"} for
\* json and Error: <message> for human.
ReportedMessages ==
    { ErrorString(e) : e \in Errors \cup DirErrors \cup FlagErrors }
       \cup ResolutionMessages
       \cup { "failed to unmarshal configuration: bad type",
              "mkdir: denied", "open: denied",
              "required flag(s) \"name\" not set" }

\* The format the command line of the call selects; after a flag error, the
\* format the parse had reached.
ActiveFormat(i) ==
    IF argFormat[i] # Unset /\ failure[i] # "flags" THEN argFormat[i] ELSE format[i]

\* What the call of instance i wrote to standard error, the development
\* warning apart.
Reports(i) == SelectSeq(stderr, LAMBDA r : r.call = i /\ r.text # DevWarning)

C11_FatalErrorPrintedOnce ==
    \A i \in Instances :
        (ExitedIn(i) \/ (Returned(i) /\ err[i] # Nil)) =>
            /\ Len(Reports(i)) = 1
            /\ Reports(i)[1].text \in
                  { IF ActiveFormat(i) = JSON
                    THEN "{\"error\": \"" \o m \o "\"}"
                    ELSE "Error: " \o m \o "\n" : m \in ReportedMessages }
            /\ Returned(i) =>
                  Reports(i)[1].text \in
                      { "{\"error\": \"" \o ErrorString(err[i]) \o "\"}",
                        "Error: " \o ErrorString(err[i]) \o "\n" }

\* The logger of the followed run has been made by the hook.
LoggerMade == helper[Followed].Logger # NoLogger

\* C12: the threshold of the logger is Trace whenever --debug is on the
\* command line, whatever --log-level holds, and Info when neither --debug
\* nor --log-level is given, whichever destination the log is routed to.
C12_DebugForcesTrace ==
    LoggerMade =>
        /\ cmdline.debug => helper[Followed].Logger.level = "trace"
        /\ (~cmdline.debug /\ ~cmdline.level.given) =>
               helper[Followed].Logger.level = InfoLevel

\* The level a text names in some casing, "none" if it names no level.
RECURSIVE SameLetters(_, _)
SameLetters(s, n) ==
    IF s = << >> \/ n = << >> THEN s = n
    ELSE /\ Head(s) \in {Head(n), UpperOf[Head(n)]}
         /\ SameLetters(Tail(s), Tail(n))

NamedLevel(s) ==
    IF \E n \in DOMAIN LevelTable : SameLetters(s, n)
    THEN LevelTable[CHOOSE n \in DOMAIN LevelTable : SameLetters(s, n)]
    ELSE "none"

\* The call of the followed run is past the parse of its command line.
Parsed == pc[Followed] \notin {"NotStarted", "runCmd", "parse"}

\* C13: every casing of fatal, error, warn, info, debug, trace given to
\* --log-level sets that level; any other text, the empty one included, ends
\* the call before an initializer or the subcommand body runs, and Execute
\* returns a non-zero code after an error naming --log-level was written to
\* standard error.
C13_LevelParsing ==
    (Parsed /\ cmdline.level.given) =>
        IF NamedLevel(cmdline.level.text) # "none"
        THEN /\ err[Followed] # InvalidLevelError
             /\ failure[Followed] # "flags" =>
                   logLevel[Followed] = NamedLevel(cmdline.level.text)
        ELSE /\ failure[Followed] = "flags"
             /\ ~bodyRan[Followed]
             /\ initRuns[Followed] = 0
             /\ proc = "running"
             /\ Returned(Followed) =>
                   /\ rc[Followed] # 0
                   /\ \E k \in 1..Len(stderr) :
                         stderr[k].text \in { FormatError(f, InvalidLevelError) : f \in Formats }

\* WarN was given, the run went on to its subcommand with the Warn level.
C13_Witness ==
    /\ cmdline.level = LevelArg(<< "W", "a", "r", "N" >>)
    /\ bodyRan[Followed]
    /\ logLevel[Followed] = "warn"

\* The severities, least severe first, and the place of one among them.
SeverityOrder == << "trace", "debug", "info", "warn", "error", "fatal" >>
SeverityOf(s) == CHOOSE k \in 1..Len(SeverityOrder) : SeverityOrder[k] = s

\* The threshold the command line of the followed run asks for.
Threshold ==
    IF cmdline.level.given THEN NamedLevel(cmdline.level.text) ELSE InfoLevel

\* C14: once the subcommand of the followed run has written a record at
\* each severity through its logger, the records in the logger's output are
\* those whose severity is at or above the threshold, in the slog (text) and
\* in the zerolog (JSON) encoding alike, and they are in the output the log
\* was routed to.
C14_RecordShownIffAtOrAboveThreshold ==
    bodyRan[Followed] =>
        LET logger == helper[Followed].Logger IN
        /\ \A s \in Severities(logger) :
              (\E r \in logLines : r.sev = s) <=>
                  SeverityOf(s) >= SeverityOf(Threshold)
        /\ \A r \in logLines :
              /\ r.enc = (IF format[Followed] = JSON THEN "zerolog" ELSE "slog")
              /\ r.out = logOutput

\* Under --format=json and --log-level warn the subcommand ran: the warn and
\* error records are in the output, the info record is not.
C14_Witness ==
    /\ bodyRan[Followed]
    /\ format[Followed] = JSON
    /\ Threshold = "warn"
    /\ { r.sev : r \in logLines } = {"warn", "error"}

\* C15: a configuration file that does not exist never fails the
\* resolution, whether its path was given with --config or is the default
\* one: no call ends on the read of a missing file.
C15_MissingConfigIsNoError ==
    \A i \in Instances : failure[i] # "ReadInConfig(missing)"

\* C16: the Validate method of the configuration is run once the sources
\* are merged, and a configuration it rejects is fatal: the call whose
\* initializer resolved it goes no further than the resolution, no
\* subcommand body runs, and the call ends with exit code 2.
C16_InvalidConfigIsFatal ==
    (~configValid /\ initRuns[Followed] > 0) =>
        /\ pc[Followed] \notin {"hookRoute", "hookLogger", "dispatch", "body"}
        /\ ~bodyRan[Followed]
        /\ Returned(Followed) => rc[Followed] = FatalErrExitCode

\* The development warnings the followed call wrote to standard error.
Warnings == SelectSeq(stderr, LAMBDA r : r.text = DevWarning)

\* A value of the opt-out variable that reads as true.
Truthy(v) == v \in {"true", "1"}

\* C17: Execute writes the development warning exactly when the commit, the
\* build date, the platform and the version of the binary are all empty and
\* <CLI>_DISABLE_DEV_WARNING is not set to a truthy value; it is written at
\* most once in the call, before anything else the call writes and before
\* the initialization runs.
C17_DevWarningWhenSelfBuilt ==
    pc[Followed] # "NotStarted" =>
        /\ Len(Warnings) =
              (IF /\ \A f \in {"gitCommit", "buildDate", "platform", "version"} :
                        version[f] = ""
                  /\ ~Truthy(devEnv)
               THEN 1 ELSE 0)
        /\ Len(Warnings) = 1 => stderr[1].text = DevWarning

\* What the code does: the warning is written once, first, when the variable
\* is not in the environment and some version field is empty.
C17_Actual ==
    pc[Followed] # "NotStarted" =>
        /\ Len(Warnings) =
              (IF devEnv = Unset /\ \E f \in VersionFields : version[f] = ""
               THEN 1 ELSE 0)
        /\ Len(Warnings) = 1 => stderr[1].text = DevWarning

\* The output the logger of the followed run writes to.
Destination == helper[Followed].Logger.out

\* The destination is the file at the resolved log path, mirrored to standard
\* error exactly when --debug is on the command line.
RoutedToFile ==
    /\ Destination.kind = (IF cmdline.debug THEN "file+stderr" ELSE "file")
    /\ Destination.h \in 1..Len(handlePath)
    /\ handlePath[Destination.h] = logFile

\* C18 as stated: the destination is standard error when the resolved log
\* path is empty, and otherwise the file at that path, mirrored to standard
\* error if and only if --debug is set.
C18_RoutingByPathAndDebug ==
    LoggerMade =>
        IF logFile = "" THEN Destination = StderrOutput ELSE RoutedToFile

\* C18, amended: the destination is standard error when the resolved log
\* path is empty or holds white space only, and otherwise the file at that
\* path, mirrored to standard error if and only if --debug is set; nothing
\* else of the run has a part in the choice.
C18_RoutingByTrimmedPathAndDebug ==
    LoggerMade =>
        IF logFile \in {"", " "} THEN Destination = StderrOutput ELSE RoutedToFile

\* --debug and --log were given: the records of the subcommand went to the
\* file and to standard error.
C18_Witness ==
    /\ bodyRan[Followed]
    /\ cmdline.debug
    /\ cmdline.log = "/tmp/run.log"
    /\ Destination.kind = "file+stderr"
    /\ \E r \in logLines : r.out = Destination

Accessing(i) == pc[i] \in {"appendRead", "appendWrite", "drain"}

\* C20: with the instances executed concurrently, a goroutine appends to the
\* closer list or drains it only while it holds logClosersLock, so at most
\* one does at a time, and no registration is lost: every closer a goroutine
\* has appended stays in the list, and a drain invokes every closer
\* appended before it.
C20_ClosersGuardedByLock ==
    /\ \A i \in Instances : Accessing(i) => logClosersLock = i
    /\ \A i, j \in Instances : (Accessing(i) /\ Accessing(j)) => i = j
    /\ \A i \in Instances : registered[i] \subseteq Range(logClosers)
    /\ \A i \in Instances :
          pc[i] = "return" => (UNION { registered[j] : j \in Instances }) \subseteq invoked[i]

\* Two goroutines have each registered a closer; one has drained the list
\* and still holds the lock, which the other is waiting for.
C20_Witness ==
    \E i, j \in Instances :
        /\ i # j
        /\ registered[i] # {} /\ registered[j] # {}
        /\ pc[i] = "return" /\ logClosersLock = i
        /\ pc[j] \in {"lock", "drainLock"}

\* A Set has been made on the followed Format variable.
SetMade == setArg # << >> \/ setErr # NoError

\* C21: Format.Set takes every casing of text to FormatText and every casing
\* of json to FormatJSON with a nil error, so that Set(f.String()) leaves
\* FormatText and FormatJSON as they were; for every other text it returns an
\* error whose message holds "unknown log format".
C21_FormatSetCaseInsensitive ==
    /\ SameLetters(setArg, << "t", "e", "x", "t" >>) =>
          (logFormat = FormatText /\ setErr = NoError)
    /\ SameLetters(setArg, << "j", "s", "o", "n" >>) =>
          (logFormat = FormatJSON /\ setErr = NoError)
    /\ (SetMade /\ ~SameLetters(setArg, << "t", "e", "x", "t" >>)
          /\ ~SameLetters(setArg, << "j", "s", "o", "n" >>)) =>
          setErr.msg = "unknown log format"
    /\ (setArg = FormatString(setRecv) /\ setRecv \in {FormatText, FormatJSON}) =>
          (logFormat = setRecv /\ setErr = NoError)

\* A variable holding FormatText was set from jSoN and holds FormatJSON.
C21_Witness ==
    /\ setArg = << "j", "S", "o", "N" >>
    /\ setRecv = FormatText
    /\ logFormat = FormatJSON
    /\ setErr = NoError

\* C22: New writes to standard output when logFile is "stdout", to standard
\* error when it is "" or "stderr", and to the file of that name for every
\* other value, whatever the level and the format; its handler is a text
\* handler for FormatText and a JSON handler for FormatJSON.
C22_NewSelectsWriter ==
    slogLogger # NoSlogLogger =>
        /\ slogLogger.writer =
              (IF slogLogger.logFile = "stdout" THEN [kind |-> "os.Stdout", name |-> ""]
               ELSE IF slogLogger.logFile = "" \/ slogLogger.logFile = "stderr"
               THEN [kind |-> "os.Stderr", name |-> ""]
               ELSE [kind |-> "lumberjack", name |-> slogLogger.logFile])
        /\ slogLogger.format = FormatText => slogLogger.handler = "TextHandler"
        /\ slogLogger.format = FormatJSON => slogLogger.handler = "JSONHandler"

\* New("stderr", ERROR, FormatJSON) made a JSON logger on standard error.
C22_Witness ==
    /\ slogLogger.logFile = "stderr"
    /\ slogLogger.level = "ERROR"
    /\ slogLogger.format = FormatJSON
    /\ slogLogger.writer.kind = "os.Stderr"
    /\ slogLogger.handler = "JSONHandler"

\* The value the environment or the configuration file supplies for field f,
\* the environment ahead of the file.
Supplied(f) == IF EnvSupplies(f) THEN environ[f] ELSE configFile[f]

\* C23: presetRequiredFlags runs after the environment and the configuration
\* file have been read and before cobra validates the required flags: when the
\* validation is about to run, viper holds the file's content and every flag
\* that is not on the command line and that the environment or the file
\* supplies is marked as set and holds the supplied value, and the validation
\* reports exactly the required flags that no source supplies.
C23_ValidationObservesPresetFlags ==
    /\ Preset =>
          /\ viperConfig = configFile
          /\ \A f \in Fields :
                (~FlagExplicit(f) /\ (EnvSupplies(f) \/ FileSupplies(f))) =>
                    flags[f].Changed /\ flags[f].Value = Supplied(f)
    /\ rpc \in {"RunE", "rejected", "done"} =>
          validateErr = { f \in Fields :
                            /\ required[f] /\ ~FlagExplicit(f)
                            /\ ~EnvSupplies(f) /\ ~FileSupplies(f) }
    /\ rpc \in {"ParseFlags", "initConfig", "presetRequiredFlags"} =>
          validateErr = {}

\* The validation passed two required flags that were not on the command
\* line, one supplied by the configuration file alone and one by the
\* environment alone, and the subcommand ran.
C23_Witness ==
    \E f \in Fields, g \in Fields :
        /\ rpc = "done" /\ validateErr = {}
        /\ required[f] /\ required[g]
        /\ osArgs[f] = Unset /\ environ[f] = Unset /\ configFile[f] = "f"
        /\ osArgs[g] = Unset /\ environ[g] = "e" /\ configFile[g] = Unset
        /\ resolved[f] = "f" /\ resolved[g] = "e"

\* C24 as stated: once postInitCommands has run, for every command of the
\* tree, the root command included, each flag the command declares that is
\* not on the command line and that the environment or the configuration file
\* supplies is marked as set and holds the supplied value.
C24_PresetCoversEveryCommand ==
    Preset =>
        \A c \in TreeCommands : \A f \in {<< c, "local" >>, << c, "persistent" >>} :
            (~FlagExplicit(f) /\ (EnvSupplies(f) \/ FileSupplies(f))) =>
                flags[f].Changed /\ flags[f].Value = Supplied(f)

\* What postInitCommands does: the same for the flags in cmd.Flags() of every
\* command below the root command, and every other flag is as the command
\* line left it.
C24_Actual ==
    Preset =>
        \A f \in TreeFlags :
            IF \E c \in TreeCommands \ {"root"} : f \in CmdFlags(c)
            THEN (~FlagExplicit(f) /\ (EnvSupplies(f) \/ FileSupplies(f))) =>
                     flags[f].Changed /\ flags[f].Value = Supplied(f)
            ELSE flags[f].Changed = FlagExplicit(f)

\* C25: an environment variable that is present but empty is not honoured:
\* for every field whose flag is not on the command line and whose variable is
\* empty, once presetRequiredFlags has run the flag holds the file's value if
\* the file supplies one and its default otherwise, it is marked as set only
\* in the first case, it is never overwritten with the empty string, and the
\* subcommand reads that value.
C25_EmptyEnvNotHonoured ==
    \A f \in Fields :
        (~FlagExplicit(f) /\ environ[f] = "" /\ Preset) =>
            /\ flags[f].Value = IF FileSupplies(f) THEN configFile[f] ELSE flags[f].DefValue
            /\ flags[f].Changed = FileSupplies(f)
            /\ flags[f].Value = "" => flags[f].DefValue = ""
            /\ f \in validateErr => required[f] /\ ~FileSupplies(f)
            /\ rpc = "done" =>
                  resolved[f] = IF FileSupplies(f) THEN configFile[f] ELSE flags[f].DefValue

\* The subcommand read the file's value of one flag and the default of another,
\* both with an empty environment variable and neither on the command line.
C25_Witness ==
    \E f \in Fields, g \in Fields :
        /\ rpc = "done"
        /\ osArgs[f] = Unset /\ environ[f] = "" /\ configFile[f] = "f"
        /\ resolved[f] = "f"
        /\ osArgs[g] = Unset /\ environ[g] = "" /\ configFile[g] = Unset
        /\ flags[g].DefValue = "d" /\ resolved[g] = "d"

\* C26: a closer that returns an error changes nothing in the outcome: in the
\* drain of a call every registered closer is invoked, those after a failed
\* one included, and the call returns the exit code of its error alone, as it
\* does when every closer succeeds.
C26_CloserErrorChangesNothing ==
    \A i \in Instances :
        /\ closeFailed[i] \subseteq invoked[i]
        /\ pc[i] = "return" => invoked[i] = Range(logClosers)
        /\ Returned(i) =>
              /\ closeFailed[i] # {} => invoked[i] = Range(logClosers)
              /\ err[i] # Nil =>
                    rc[i] = IF \E k \in 1..Len(err[i]) : IsCmdError(err[i][k])
                            THEN err[i][CHOOSE k \in 1..Len(err[i]) :
                                           /\ IsCmdError(err[i][k])
                                           /\ \A j \in 1..(k - 1) : ~IsCmdError(err[i][j])].ExitCode
                            ELSE FatalErrExitCode

\* A call whose first closer returned an error invoked a later closer that
\* succeeded and returned the exit code 1 of its cmdutils.Error.
C26_Witness ==
    \E i \in Instances :
        /\ Returned(i)
        /\ closeFailed[i] # {}
        /\ \E h \in invoked[i] \ closeFailed[i] : \E g \in closeFailed[i] : g < h
        /\ \E k \in 1..Len(err[i]) : IsCmdError(err[i][k])
        /\ rc[i] = 1

\* The configuration file the followed run of initConfig read: the --config
\* path or the default file when it is there, "" when no file was read.
FileRead ==
    IF configRun.fileState # "ok" THEN ""
    ELSE IF configRun.cfgFile # "" THEN configRun.cfgFile
    ELSE DefaultConfigPath

C27_Actual ==
    /\ configEnd.outcome = "ok" =>
          /\ configEnd.configFile = IF configRun.commands > 0 THEN FileRead ELSE ""
          /\ configEnd.configFile # "" => configEnd.dir = "exists"
          /\ configEnd.configFile = "" => configEnd.dir = configRun.dir
    /\ (configEnd.outcome = "error" /\ configRun.dir = "exists") =>
          configEnd.err[1].msg \in
              {"failed to read default configuration directory: no home",
               "failed to read configuration: bad file",
               "failed to read configuration: open: no such file or directory",
               "failed to unmarshal configuration: bad type"}

\* The log path instance i resolves on its own: the --log argument of the
\* command line, else the default of its command type.
OwnLogPath(i) == IF cmdline.log # Unset THEN cmdline.log ELSE logPath(commandType[i])

\* C28: when two instances run concurrently in one process, the logger a
\* subcommand of instance i writes to has the destination selected from
\* that instance's own log path and debug flag: standard error when the path
\* is blank, else a file opened at that path, mirrored to standard error
\* exactly when --debug is given; under every interleaving of the hooks.
C28_OwnDestinationUnderConcurrency ==
    \A i \in Racers :
        pc[i] = "body" =>
            LET out == helper[i].Logger.out IN
            IF TrimSpace(OwnLogPath(i)) = ""
            THEN out = StderrOutput
            ELSE /\ out.kind = (IF cmdline.debug THEN "file+stderr" ELSE "file")
                 /\ out.h \in 1..Len(handlePath)
                 /\ handlePath[out.h] = OwnLogPath(i)

\* The states of the lifecycle, in the order of the specification, and the
\* one a call is in.
LifecycleRank(p) ==
    IF p = "NotStarted" THEN 0
    ELSE IF p \in {"runCmd", "parse", "hookInit", "hookRoute", "hookLogger"} THEN 1
    ELSE IF p \in {"dispatch", "body"} THEN 2
    ELSE IF p \in {"Classifying", "drain", "return"} THEN 3
    ELSE 4

\* C29: every call whose subcommand body has terminated eventually returns an
\* exit code; every call passes through NotStarted, Initializing, Executing,
\* Classifying and Terminated in that order, never back, and a call whose
\* body ran has passed through each of them; and a call never waits for the
\* closer lock: when it reaches the drain the lock its hooks took is free.
C29_ReturnsInOrderWithoutBlocking ==
    /\ \A i \in Instances : (bodyRan[i] /\ pc[i] = "Classifying") ~> Returned(i)
    /\ [][\A i \in Instances :
             /\ LifecycleRank(pc'[i]) >= LifecycleRank(pc[i])
             /\ bodyRan'[i] /\ ~bodyRan[i] => LifecycleRank(pc[i]) = 2 /\ LifecycleRank(pc'[i]) = 3
             /\ LifecycleRank(pc[i]) = 0 /\ pc'[i] # pc[i] => LifecycleRank(pc'[i]) = 1
             /\ LifecycleRank(pc[i]) = 1 /\ LifecycleRank(pc'[i]) = 2 => hookIdx[i] > 0
             /\ LifecycleRank(pc'[i]) = 4 /\ pc'[i] # pc[i] => LifecycleRank(pc[i]) = 3]_vars
    /\ [](\A i \in Instances : pc[i] = "drain" => logClosersLock = 0)

\* The second call of the process ran two hooks, each of which took and
\* released the lock, its body ran and failed, the drain took the lock and
\* called the closers, and the call returned its exit code with the lock free.
C29_Witness ==
    /\ Returned(2)
    /\ bodyRan[2]
    /\ routeRuns[2] = 2
    /\ Len(logClosers) = 2
    /\ invoked[2] = Range(logClosers)
    /\ logClosersLock = 0
    /\ rc[2] # 0

\* The names an error of the validator lists between "<" and ">", and the
\* word before them.
MissingListed(e) ==
    LET body == SubSeq(e, 4, Len(e) - 3)
    IN [k \in 1..((Len(body) + 1) \div 2) |-> body[2 * k - 1]]

\* C30: the validator returns no error exactly when at least len(reqArgs)
\* arguments are supplied; otherwise its error lists exactly the names
\* reqArgs[len(args):], in the order of their declaration and separated by
\* ", ", after the word "argument" when one name is missing and "arguments"
\* when several are, and ends with the usage of the command.
C30_RequiredArgsNamesTheMissing ==
    validateArgsErr.called =>
        LET r == validated.reqArgs
            n == Len(validated.args)
            e == validateArgsErr.err
        IN /\ e = Nil <=> n >= Len(r)
           /\ e # Nil =>
                 /\ Len(MissingListed(e)) = Len(r) - n
                 /\ \A k \in 1..(Len(r) - n) : MissingListed(e)[k] = r[n + k]
                 /\ \A k \in 1..(Len(r) - n - 1) : e[3 + 2 * k] = ", "
                 /\ e[1] = "missing "
                 /\ e[2] = (IF Len(r) - n = 1 THEN "argument" ELSE "arguments")
                 /\ e[3] = " <"
                 /\ Len(e) = 6 + 2 * (Len(r) - n) - 1
                 /\ e[Len(e) - 2] = ">"
                 /\ e[Len(e)] = UsageString

\* The validator of <id> <name> <org>, called with one argument, returned an
\* error that lists name and org after the word arguments.
C30_Witness ==
    /\ validateArgsErr.called
    /\ validated.reqArgs = << "id", "name", "org" >>
    /\ Len(validated.args) = 1
    /\ validateArgsErr.err =
          << "missing ", "arguments", " <", "name", ", ", "org", ">", " \n\n", UsageString >>

====
